---- MODULE Spec2Model ----
(***************************************************************************)
(* Model of the content quality-control subsystem of the repository:      *)
(* FactChecker (src/src/fact_checker.py), WebSearcher                      *)
(* (src/src/web_searcher.py) and ContentImprover                           *)
(* (src/src/content_improver.py).                                          *)
(*                                                                         *)
(* Python values are embedded as tagged records, Python floats as IEEE-754 *)
(* binary64 numbers with round-to-nearest-even, texts as token sequences.  *)
(***************************************************************************)
EXTENDS Integers, Sequences, FiniteSets, TLC

(***************************************************************************)
(* Natural numbers of arbitrary size: little-endian sequences of digits in *)
(* base 2^15 without a leading zero digit.  They carry the 53-bit          *)
(* significands of the floats and the exact products and sums before      *)
(* rounding.                                                               *)
(***************************************************************************)
\* the base of the digits; a digit holds 15 bits
BASE == 32768

RECURSIVE BNorm(_)
BNorm(a) ==
    IF a = <<>> THEN <<>>
    ELSE IF a[Len(a)] = 0 THEN BNorm(SubSeq(a, 1, Len(a) - 1))
    ELSE a

RECURSIVE BFromInt(_)
BFromInt(n) ==
    IF n = 0 THEN <<>> ELSE <<n % BASE>> \o BFromInt(n \div BASE)

RECURSIVE BAddC(_, _, _)
BAddC(a, b, c) ==
    IF a = <<>> /\ b = <<>> THEN (IF c = 0 THEN <<>> ELSE <<c>>)
    ELSE LET x == IF a = <<>> THEN 0 ELSE Head(a)
             y == IF b = <<>> THEN 0 ELSE Head(b)
             s == x + y + c
         IN  <<s % BASE>> \o BAddC(IF a = <<>> THEN <<>> ELSE Tail(a),
                                   IF b = <<>> THEN <<>> ELSE Tail(b),
                                   s \div BASE)

\* a - b for a >= b
RECURSIVE BSubC(_, _, _)
BSubC(a, b, c) ==
    IF a = <<>> THEN <<>>
    ELSE LET y == IF b = <<>> THEN 0 ELSE Head(b)
             s == Head(a) - y - c
         IN  <<IF s < 0 THEN s + BASE ELSE s>>
                 \o BSubC(Tail(a), IF b = <<>> THEN <<>> ELSE Tail(b),
                          IF s < 0 THEN 1 ELSE 0)

\* a * k + c for a digit k
RECURSIVE BMulSmallC(_, _, _)
BMulSmallC(a, k, c) ==
    IF a = <<>> THEN (IF c = 0 THEN <<>> ELSE <<c>>)
    ELSE LET s == Head(a) * k + c
         IN  <<s % BASE>> \o BMulSmallC(Tail(a), k, s \div BASE)

BMulSmall(a, k) == IF k = 0 THEN <<>> ELSE BMulSmallC(a, k, 0)

RECURSIVE BMul(_, _)
BMul(a, b) ==
    IF a = <<>> \/ b = <<>> THEN <<>>
    ELSE BAddC(BMulSmall(a, Head(b)), BNorm(<<0>> \o BMul(a, Tail(b))), 0)

\* <<quotient, remainder>> of a by a digit d > 0, most significant digit first
RECURSIVE BDivSmallR(_, _, _)
BDivSmallR(a, d, r) ==
    IF a = <<>> THEN <<<<>>, r>>
    ELSE LET cur == r * BASE + a[Len(a)]
             rest == BDivSmallR(SubSeq(a, 1, Len(a) - 1), d, cur % d)
         IN  <<rest[1] \o <<cur \div d>>, rest[2]>>

BDivSmall(a, d) ==
    LET qr == BDivSmallR(a, d, 0) IN <<BNorm(qr[1]), qr[2]>>

\* -1, 0, 1 as a < b, a = b, a > b
RECURSIVE BCmp(_, _)
BCmp(a, b) ==
    IF Len(a) # Len(b) THEN (IF Len(a) < Len(b) THEN -1 ELSE 1)
    ELSE IF a = <<>> THEN 0
    ELSE IF a[Len(a)] # b[Len(b)] THEN (IF a[Len(a)] < b[Len(b)] THEN -1 ELSE 1)
    ELSE BCmp(SubSeq(a, 1, Len(a) - 1), SubSeq(b, 1, Len(b) - 1))

RECURSIVE DigitBits(_)
DigitBits(d) == IF d = 0 THEN 0 ELSE 1 + DigitBits(d \div 2)

BitLen(a) ==
    IF a = <<>> THEN 0 ELSE 15 * (Len(a) - 1) + DigitBits(a[Len(a)])

RECURSIVE BZeros(_)
BZeros(n) == IF n = 0 THEN <<>> ELSE <<0>> \o BZeros(n - 1)

\* a * 2^k
BShl(a, k) ==
    IF a = <<>> THEN <<>>
    ELSE BZeros(k \div 15) \o BMulSmall(a, 2 ^ (k % 15))

\* floor(a / 2^k)
BShr(a, k) ==
    IF k \div 15 >= Len(a) THEN <<>>
    ELSE BDivSmall(SubSeq(a, (k \div 15) + 1, Len(a)),
                   2 ^ (k % 15))[1]

\* a mod 2^k
BLowBits(a, k) == BNorm(BSubC(a, BShl(BShr(a, k), k), 0))

(***************************************************************************)
(* Python floats: the non-negative finite binary64 numbers m * 2^e, kept   *)
(* canonical (m odd, or m = 0 and e = 0) so that equal numbers are equal   *)
(* values.  Every operation rounds its exact result to 53 significant     *)
(* bits, ties to even, as the hardware does.  Python ints in the range of  *)
(* the model are exact floats, and int-with-float arithmetic converts the  *)
(* int first, so one representation serves both.                          *)
(***************************************************************************)
RECURSIVE DCanon(_, _)
DCanon(N, e) ==
    IF N = <<>> THEN [m |-> <<>>, e |-> 0]
    ELSE IF Head(N) = 0 THEN DCanon(Tail(N), e + 15)
    ELSE IF Head(N) % 2 = 0 THEN DCanon(BShr(N, 1), e + 1)
    ELSE [m |-> N, e |-> e]

\* q or q + 1 as the dropped bits compare (c) to half a unit, ties to even
DRoundUp(q, c, e) ==
    DCanon(IF c > 0 \/ (c = 0 /\ q # <<>> /\ q[1] % 2 = 1) THEN BAddC(q, <<1>>, 0) ELSE q, e)

\* N * 2^e with the lowest s bits of N rounded away
DRoundAt(N, e, s) ==
    DRoundUp(BShr(N, s), BCmp(BLowBits(N, s), BShl(<<1>>, s - 1)), e + s)

\* the float nearest to N * 2^e, ties to even
DRound(N, e) ==
    IF BitLen(N) <= 53 THEN DCanon(N, e)
    ELSE DRoundAt(N, e, BitLen(N) - 53)

DFromInt(n) == DCanon(BFromInt(n), 0)

DMul(x, y) == DRound(BMul(x.m, y.m), x.e + y.e)

DAdd(x, y) ==
    LET e0 == IF x.e < y.e THEN x.e ELSE y.e
    IN  DRound(BAddC(BShl(x.m, x.e - e0), BShl(y.m, y.e - e0), 0), e0)

\* x / d for an integer 0 < d < BASE: the quotient is computed with 70 extra
\* bits and a sticky bit for the remainder, then rounded once
DDivSticky(qr, e) ==
    DRound(BAddC(BShl(qr[1], 1), IF qr[2] = 0 THEN <<>> ELSE <<1>>, 0), e)

DDivInt(x, d) ==
    DDivSticky(BDivSmall(BShl(x.m, 70), d), x.e - 70 - 1)

\* the float a decimal literal n/d denotes (0.35 is DLit(35, 100))
DLit(n, d) == DDivInt(DFromInt(n), d)

DCmp(x, y) ==
    LET e0 == IF x.e < y.e THEN x.e ELSE y.e
    IN  BCmp(BShl(x.m, x.e - e0), BShl(y.m, y.e - e0))

DGe(x, y) == DCmp(x, y) >= 0

DLt(x, y) == DCmp(x, y) < 0

(***************************************************************************)
(* Python values as tagged records.  A str is a sequence of tokens: a      *)
(* literal of the source is one token (Chinese literals are written in     *)
(* pinyin or glossed in English), the concatenation of strings is the      *)
(* concatenation of their token sequences.                                 *)
(***************************************************************************)
PyNone == [ty |-> "none"]

PyBool(b) == [ty |-> "bool", b |-> b]

PyNum(d) == [ty |-> "num", num |-> d]

PyInt(n) == PyNum(DFromInt(n))

PyStr(s) == [ty |-> "str", s |-> s]

PyList(l) == [ty |-> "list", l |-> l]

PyDict(d) == [ty |-> "dict", d |-> d]

\* datetime.now() - t, in whole seconds
PyDatetime(elapsed) == [ty |-> "datetime", elapsed |-> elapsed]

Lit(text) == <<[t |-> text]>>

\* bool(v), as "if v:" and "not v" evaluate it
Truthy(v) ==
    CASE v.ty = "none" -> FALSE
      [] v.ty = "bool" -> v.b
      [] v.ty = "num" -> v.num.m # <<>>
      [] v.ty = "str" -> v.s # <<>>
      [] v.ty = "list" -> v.l # <<>>
      [] v.ty = "dict" -> DOMAIN v.d # {}
      [] OTHER -> TRUE

\* The outcome of evaluating an expression or a call: a value, or an exception
\* carrying str(e).
Returned(v) == [raised |-> FALSE, value |-> v]

Raised(kind, msg) == [raised |-> TRUE, exc |-> kind, msg |-> msg]

\* v.get(key, default): an AttributeError on a value that is no dict (str, list,
\* int, float, bool and None have no get)
DictGet(v, key, default) ==
    IF v.ty # "dict"
    THEN Raised("AttributeError", Lit("object has no attribute 'get'"))
    ELSE Returned(IF key \in DOMAIN v.d THEN v.d[key] ELSE default)

\* v[key]
DictItem(v, key) ==
    IF v.ty # "dict"
    THEN Raised("TypeError", Lit("object is not subscriptable"))
    ELSE IF key \in DOMAIN v.d THEN Returned(v.d[key])
    ELSE Raised("KeyError", Lit(key))

\* the operand of float arithmetic and of comparisons with a number: int, float
\* and bool qualify (True is 1), every other type is a TypeError
IsNumber(v) == v.ty \in {"num", "bool"}

NumOf(v) == IF v.ty = "bool" THEN DFromInt(IF v.b THEN 1 ELSE 0) ELSE v.num

TypeErrorOperand == Raised("TypeError", Lit("unsupported operand type(s)"))

(***************************************************************************)
(* Texts exchanged with the providers.  A text is a sequence of tokens:    *)
(* the fence of a markdown code block, the language tag json, white space, *)
(* prose, and the literal of one complete JSON value.                      *)
(***************************************************************************)
TokFence == [t |-> "fence"]

TokJsonTag == [t |-> "json"]

TokJsonTagUpper == [t |-> "JSON"]

TokNewline == [t |-> "newline"]

TokSpace == [t |-> "space"]

TokProse == [t |-> "prose"]

\* the JSON literal of the value v, containing no fence
TokValue(v) == [t |-> "value", v |-> v]

\* the JSON literal of the value v, one of whose strings contains a fenced code
\* block: the literal up to the block, the block, the rest of the literal
TokOpening(v) == [t |-> "opening", v |-> v]

TokClosing == [t |-> "closing"]

FencedLiteral(v) == <<TokOpening(v), TokFence, TokProse, TokFence, TokClosing>>

IsSpace(tok) == tok \in {TokNewline, TokSpace}

\* str.strip()
RECURSIVE LStrip(_)
LStrip(s) == IF s # <<>> /\ IsSpace(Head(s)) THEN LStrip(Tail(s)) ELSE s

RECURSIVE RStrip(_)
RStrip(s) ==
    IF s # <<>> /\ IsSpace(s[Len(s)]) THEN RStrip(SubSeq(s, 1, Len(s) - 1)) ELSE s

Strip(s) == LStrip(RStrip(s))

\* json.loads(text): the text must be one JSON value, white space around it
\* allowed; anything else is a json.JSONDecodeError
JsonLoads(text) ==
    LET body == Strip(text)
    IN  IF Len(body) = 1 /\ body[1].t = "value"
        THEN Returned(body[1].v)
        ELSE IF Len(body) = 5 /\ body[1].t = "opening" /\ body = FencedLiteral(body[1].v)
        THEN Returned(body[1].v)
        ELSE Raised("JSONDecodeError", Lit("Expecting value"))

\* a number interpolated into an f-string
IntTok(n) == [t |-> "int", n |-> n]

FloatTok(x) == [t |-> "float", x |-> x]

(***************************************************************************)
(* The outcome of a method: what it returned or raised, and the provider   *)
(* calls it made, in order.                                                *)
(***************************************************************************)
Ret(v, calls) == [raised |-> FALSE, value |-> v, calls |-> calls]

Exc(kind, msg, calls) == [raised |-> TRUE, exc |-> kind, msg |-> msg, calls |-> calls]

\* an expression's outcome as a method outcome
Lift(o, calls) ==
    IF o.raised THEN Exc(o.exc, o.msg, calls) ELSE Ret(o.value, calls)

(***************************************************************************)
(* WebSearcher (src/src/web_searcher.py)                                   *)
(***************************************************************************)
\* A WebSearcher that also keeps the key it was given under the name api_key,
\* the attribute FactChecker reads
WebSearcher_init_with_api_key(TAVILY_API_KEY, api_key) ==
    [tavily_api_key |-> TAVILY_API_KEY,
     tavily_client |-> IF Truthy(TAVILY_API_KEY)
                       THEN PyStr(Lit("SimpleTavilyClient")) ELSE PyNone,
     legacy_api_key |-> api_key,
     api_key |-> api_key]

\* The instance attributes __init__ sets: tavily_api_key, tavily_client and
\* legacy_api_key.  The class defines no other data attribute.
WebSearcher_init(TAVILY_API_KEY, api_key) ==
    [tavily_api_key |-> TAVILY_API_KEY,
     tavily_client |-> IF Truthy(TAVILY_API_KEY)
                       THEN PyStr(Lit("SimpleTavilyClient")) ELSE PyNone,
     legacy_api_key |-> api_key]

\* obj.name on an instance: the attribute's value, or an AttributeError when the
\* instance has no such attribute
GetAttr(obj, name) ==
    IF name \in DOMAIN obj THEN Returned(obj[name])
    ELSE Raised("AttributeError",
                Lit("'WebSearcher' object has no attribute '") \o Lit(name) \o Lit("'"))

\* one document of a search response as _search_with_tavily rebuilds it
SearchDoc(i) ==
    PyDict([title |-> PyStr(Lit("title") \o <<IntTok(i)>>),
            summary |-> PyStr(Lit("content") \o <<IntTok(i)>>),
            link |-> PyStr(Lit("url") \o <<IntTok(i)>>),
            published |-> PyStr(<<>>),
            source |-> PyStr(Lit("Tavily API"))])

\* search_topic: the documents of the Tavily response, [] when the request
\* fails, and [] without any request when no Tavily client was built
WebSearcher_search_topic(ws, topic, max_results, search) ==
    IF Truthy(ws.tavily_client)
    THEN IF search.k = "raise"
         THEN Ret(PyList(<<>>), <<"tavily.search">>)
         ELSE Ret(PyList([i \in 1..search.n |-> SearchDoc(i)]), <<"tavily.search">>)
    ELSE Ret(PyList(<<>>), <<>>)

WebSearcher_verify_fact(claim) ==
    PyDict([is_true |-> PyNone,
            confidence |-> PyInt(0),
            reasoning |-> PyStr(Lit("Function deprecated to save tokens")),
            sources |-> PyList(<<>>),
            search_results |-> PyList(<<>>)])

WebSearcher_check_freshness_with_search(topic, content) ==
    PyDict([is_fresh |-> PyNone,
            freshness_level |-> PyStr(Lit("weizhi")),
            score |-> PyInt(0),
            reasoning |-> PyStr(Lit("Function deprecated to save tokens")),
            latest_info |-> PyStr(<<>>),
            search_results |-> PyList(<<>>)])

(***************************************************************************)
(* FactChecker (src/src/fact_checker.py)                                   *)
(***************************************************************************)
\* __init__: client is the OpenAI client, or None without an API key
FactChecker_init(api_key, TAVILY_API_KEY, doubao_api_key) ==
    [client |-> IF Truthy(api_key) THEN PyStr(Lit("OpenAI")) ELSE PyNone,
     web_searcher |-> WebSearcher_init(TAVILY_API_KEY, doubao_api_key)]

\* self.client.chat.completions.create(...) followed by
\* response.choices[0].message.content.strip(): the request may raise, and the
\* content of the message may be None, which has no strip
ChatCompletion(chat) ==
    CASE chat.k = "raise" ->
             Exc("APIError", Lit("Connection error."), <<"chat.completions.create">>)
      [] chat.k = "none" ->
             Exc("AttributeError", Lit("'NoneType' object has no attribute 'strip'"),
                 <<"chat.completions.create">>)
      [] OTHER -> Ret(PyStr(Strip(chat.text)), <<"chat.completions.create">>)

_parse_verification_result(text) ==
    LET result == JsonLoads(text)
    IN  IF result.raised
        THEN PyDict([is_true |-> PyNone,
                     confidence |-> PyInt(50),
                     reasoning |-> PyStr(text),
                     sources |-> PyList(<<>>),
                     method |-> PyStr(Lit("none"))])
        ELSE result.value

_parse_cross_ref_result(text) ==
    LET result == JsonLoads(text)
    IN  IF result.raised
        THEN PyDict([is_consistent |-> PyNone,
                     confidence |-> PyInt(50),
                     known_facts |-> PyList(<<>>),
                     contradictions |-> PyList(<<>>),
                     additional_context |-> PyStr(text),
                     reasoning |-> PyStr(<<>>),
                     method |-> PyStr(Lit("none"))])
        ELSE result.value

\* str.lower() on the words a content is made of
Lower(s) ==
    [i \in 1..Len(s) |-> [t |-> CASE s[i].t = "Beta" -> "beta"
                                  [] s[i].t = "RELEASE" -> "release"
                                  [] OTHER -> s[i].t]]

\* keyword in text: the keyword's words stand next to each other in the text
Occurs(keyword, text) ==
    \E i \in 0..(Len(text) - Len(keyword)) :
        \A j \in 1..Len(keyword) : text[i + j].t = keyword[j]

\* The list literal of lines 33-44, in pinyin.  Where the source has no comma
\* between two adjacent literals Python joins them into one string.
fresh_keywords ==
    << <<"zuixin">>, <<"xinbanben">>, <<"ganggang", "fabu">>, <<"jintian", "fabu">>,
       <<"benyue">>,
       <<"zuijin">>, <<"xintuichu">>, <<"zhengshi", "fabu">>, <<"shangxian">>, <<"fabu">>,
       <<"v2.0">>, <<"v3.0">>, <<"v4.0">>, <<"v5.0">>, <<"v6.0">>,
       <<"2025">>, <<"2026">>, <<"2027">>, <<"2028">>, <<"2029">>, <<"2030">>,
       <<"beta">>, <<"alpha">>, <<"rc">>, <<"release">>, <<"stable", "gengxin">>,
       <<"shengji">>, <<"xinzeng">>, <<"gaijin">>, <<"youhua">>,
       <<"xiufu", "breaking", " news">>,
       <<"breaking">>, <<"tufa">>, <<"zhongbang">>, <<"zhongbang", "shouci">>,
       <<"first">>, <<"shouge">>, <<"diyi">>, <<"chuci", "zuixin", "xiaoxi">>,
       <<"zuixin", "dongtai">>, <<"zuixin", "jinzhan">>,
       <<"zuixin", "qingkuang", "jintian">>,
       <<"jinri">>, <<"xianzai">>, <<"dangqian">>, <<"zhengzai">> >>

fresh_count(content) ==
    Cardinality({i \in 1..Len(fresh_keywords) : Occurs(fresh_keywords[i], Lower(content))})

_analyze_content_freshness(content, topic) ==
    LET n == fresh_count(content)
    IN  IF n >= 3
        THEN PyDict([is_fresh |-> PyBool(TRUE),
                     freshness_level |-> PyStr(Lit("zuixin")),
                     score |-> PyInt(95),
                     reasoning |-> PyStr(Lit("content contains ") \o <<IntTok(n)>>
                                         \o Lit(" freshness keywords, judged newest")),
                     method |-> PyStr(Lit("content_analysis"))])
        ELSE IF n >= 1
        THEN PyDict([is_fresh |-> PyBool(TRUE),
                     freshness_level |-> PyStr(Lit("jiaoxin")),
                     score |-> PyInt(85),
                     reasoning |-> PyStr(Lit("content contains ") \o <<IntTok(n)>>
                                         \o Lit(" freshness keywords, judged fresh")),
                     method |-> PyStr(Lit("content_analysis"))])
        ELSE PyDict([is_fresh |-> PyBool(FALSE),
                     freshness_level |-> PyStr(Lit("weizhi")),
                     score |-> PyInt(50),
                     reasoning |-> PyStr(Lit("content contains no obvious freshness keyword")),
                     method |-> PyStr(Lit("content_analysis"))])

\* x > 0 for a value taken from a dict
GtZero(v) ==
    IF IsNumber(v) THEN Returned(DCmp(NumOf(v), DFromInt(0)) > 0)
    ELSE Raised("TypeError", Lit("'>' not supported between instances"))

\* the loop body of lines 133-137 (and of lines 290-294) over the answers of
\* the rounds, in order: the answers whose key is > 0 are kept.  A call that
\* raises, or a comparison that raises, ends the loop with the exception.
RECURSIVE RoundsOf(_, _, _)
RoundsOf(results, key, call) ==
    IF results = <<>> THEN Ret(<<>>, <<>>)
    ELSE LET earlier == RoundsOf(SubSeq(results, 1, Len(results) - 1), key, call)
             usable == IF results[Len(results)].ty = "raise"
                       THEN Raised("ConnectionError", Lit("Connection aborted."))
                       ELSE GtZero(DictGet(results[Len(results)], key, PyInt(0)).value)
         IN  IF earlier.raised THEN earlier
             ELSE IF usable.raised
             THEN Exc(usable.exc, usable.msg, earlier.calls \o <<call>>)
             ELSE Ret(IF usable.value THEN earlier.value \o <<results[Len(results)]>>
                                      ELSE earlier.value,
                      earlier.calls \o <<call>>)

\* the loop of lines 131-137 (and of lines 288-294): the given number of calls of the
\* grounded operation, which answers each call alike
GroundedRounds(rounds, round_result, key, call) ==
    RoundsOf([i \in 1..rounds |-> round_result], key, call)

\* sum(r.get(key, 0) for r in results) / len(results), for results that passed
\* the > 0 test of the loop
RECURSIVE SumOf(_, _)
SumOf(results, key) ==
    IF results = <<>> THEN DFromInt(0)
    ELSE DAdd(SumOf(SubSeq(results, 1, Len(results) - 1), key),
              NumOf(DictGet(results[Len(results)], key, PyInt(0)).value))

\* the sum, not divided by the number of results
SumNotAverage(results, key) == SumOf(results, key)

Average(results, key) == DDivInt(SumOf(results, key), Len(results))

\* all_x.extend(r.get(key, [])) over the results
RECURSIVE ExtendAll(_, _)
ExtendAll(results, key) ==
    IF results = <<>> THEN <<>>
    ELSE DictGet(Head(results), key, PyList(<<>>)).value.l \o ExtendAll(Tail(results), key)

\* list(set(xs)): the distinct elements; the order Python gives them is that of
\* the hash table, here the order of first occurrence
RECURSIVE Distinct(_)
Distinct(xs) ==
    IF xs = <<>> THEN <<>>
    ELSE LET init == Distinct(SubSeq(xs, 1, Len(xs) - 1))
             x == xs[Len(xs)]
         IN  IF \E i \in 1..Len(init) : init[i] = x THEN init ELSE init \o <<x>>

\* any(r.get(key) for r in results)
AnyTruthy(results, key) ==
    \E i \in 1..Len(results) : Truthy(DictGet(results[i], key, PyNone).value)

\* all(r.get(key) for r in results)
AllTruthy(results, key) ==
    \A i \in 1..Len(results) : Truthy(DictGet(results[i], key, PyNone).value)

\* a verdict that stays unknown when a usable round gave no verdict
verify_claim_multi_round_verdict_unknown(verification_results, avg_confidence, is_true, n) ==
    PyDict([is_true |-> IF \E i \in 1..Len(verification_results) :
                                DictGet(verification_results[i], "is_true", PyNone).value = PyNone
                        THEN PyNone ELSE PyBool(is_true),
            confidence |-> PyNum(avg_confidence),
            reasoning |-> PyStr(
                IF is_true /\ DGe(avg_confidence, DFromInt(80))
                THEN Lit("sources agree, high confidence (") \o n \o Lit(" rounds)")
                ELSE IF is_true /\ DGe(avg_confidence, DFromInt(60))
                THEN Lit("sources mostly agree, medium confidence (") \o n \o Lit(" rounds)")
                ELSE Lit("sources disagree, needs manual review (") \o n \o Lit(" rounds)")),
            sources |-> PyList(Distinct(ExtendAll(verification_results, "sources"))),
            search_results |-> PyList(ExtendAll(verification_results, "search_results")),
            method |-> PyStr(Lit("multi_source_web_search")),
            verification_count |-> PyInt(Len(verification_results))])

\* lines 140-167: the verdict of the usable grounded rounds
verify_claim_multi_round_verdict(verification_results, avg_confidence, is_true, n) ==
    PyDict([is_true |-> PyBool(is_true),
            confidence |-> PyNum(avg_confidence),
            reasoning |-> PyStr(
                IF is_true /\ DGe(avg_confidence, DFromInt(80))
                THEN Lit("sources agree, high confidence (") \o n \o Lit(" rounds)")
                ELSE IF is_true /\ DGe(avg_confidence, DFromInt(60))
                THEN Lit("sources mostly agree, medium confidence (") \o n \o Lit(" rounds)")
                ELSE IF ~is_true
                THEN Lit("sources contradict, low confidence (") \o n \o Lit(" rounds)")
                ELSE Lit("sources disagree, needs manual review (") \o n \o Lit(" rounds)")),
            sources |-> PyList(Distinct(ExtendAll(verification_results, "sources"))),
            search_results |-> PyList(ExtendAll(verification_results, "search_results")),
            method |-> PyStr(Lit("multi_source_web_search")),
            verification_count |-> PyInt(Len(verification_results))])

verify_claim_multi_round(verification_results) ==
    verify_claim_multi_round_verdict(verification_results,
                                     Average(verification_results, "confidence"),
                                     AllTruthy(verification_results, "is_true"),
                                     <<IntTok(Len(verification_results))>>)

\* lines 169-176
verify_claim_not_configured ==
    PyDict([is_true |-> PyNone,
            confidence |-> PyInt(0),
            reasoning |-> PyStr(Lit("API Key not configured, cannot verify")),
            sources |-> PyList(<<>>),
            method |-> PyStr(Lit("none"))])

\* the except handler giving the partial credit of a parse failure
verify_claim_failed_half(msg) ==
    PyDict([is_true |-> PyNone,
            confidence |-> PyInt(50),
            reasoning |-> PyStr(msg),
            sources |-> PyList(<<>>),
            method |-> PyStr(Lit("none"))])

\* lines 225-233: the except handler
verify_claim_failed(msg) ==
    PyDict([is_true |-> PyNone,
            confidence |-> PyInt(0),
            reasoning |-> PyStr(Lit("verification failed: ") \o msg),
            sources |-> PyList(<<>>),
            method |-> PyStr(Lit("none"))])

\* lines 169-223: the verification by the generation provider alone
verify_claim_single_model(self, claim, chat, calls) ==
    IF ~Truthy(self.client) THEN Ret(verify_claim_not_configured, calls)
    ELSE LET response == ChatCompletion(chat)
         IN  IF response.raised
             THEN Exc(response.exc, response.msg, calls \o response.calls)
             ELSE Ret(_parse_verification_result(response.value.s),
                      calls \o response.calls)

\* a body in which a round that raises leads to the fallback
verify_claim_branches_fallback(self, claim, chat, api_key, rounds) ==
    IF api_key.raised THEN Lift(api_key, <<>>)
    ELSE IF ~Truthy(api_key.value)
    THEN verify_claim_single_model(self, claim, chat, <<>>)
    ELSE IF rounds.raised THEN verify_claim_single_model(self, claim, chat, rounds.calls)
    ELSE IF rounds.value # <<>>
    THEN Ret(verify_claim_multi_round(rounds.value), rounds.calls)
    ELSE verify_claim_single_model(self, claim, chat, rounds.calls)

\* lines 124-223: the body of the try statement
verify_claim_branches(self, claim, chat, api_key, rounds) ==
    IF api_key.raised THEN Lift(api_key, <<>>)
    ELSE IF ~Truthy(api_key.value)
    THEN verify_claim_single_model(self, claim, chat, <<>>)
    ELSE IF rounds.raised THEN rounds
    ELSE IF rounds.value # <<>>
    THEN Ret(verify_claim_multi_round(rounds.value), rounds.calls)
    ELSE verify_claim_single_model(self, claim, chat, rounds.calls)

verify_claim_try(self, claim, chat) ==
    verify_claim_branches(self, claim, chat,
                          GetAttr(self.web_searcher, "api_key"),
                          GroundedRounds(2, WebSearcher_verify_fact(claim), "confidence",
                                         "web_searcher.verify_fact"))

\* lines 124 and 225-233: what the try statement makes of its body's outcome
verify_claim_except(body) ==
    IF body.raised THEN Ret(verify_claim_failed(body.msg), body.calls) ELSE body

verify_claim(self, claim, chat) ==
    verify_claim_except(verify_claim_try(self, claim, chat))

\* lines 250-279: the score of the content's age; without a timestamp 50
SECONDS_PER_HOUR == 3600

\* the step table with the band of a day closed at 24 hours
age_band_inclusive(age) ==
    IF DLt(age, DFromInt(1)) THEN <<"zuixin", 100>>
    ELSE IF ~DLt(DFromInt(24), age) THEN <<"jinri", 95>>
    ELSE IF DLt(age, DFromInt(48)) THEN <<"jin 2 tian", 85>>
    ELSE IF DLt(age, DFromInt(72)) THEN <<"jin 3 tian", 70>>
    ELSE IF DLt(age, DFromInt(168)) THEN <<"jin yi zhou", 50>>
    ELSE IF DLt(age, DFromInt(720)) THEN <<"jin yi yue", 30>>
    ELSE <<"jiaojiu", 10>>

\* lines 253-273: the step table of the age in hours
age_band(age) ==
    IF DLt(age, DFromInt(1)) THEN <<"zuixin", 100>>
    ELSE IF DLt(age, DFromInt(24)) THEN <<"jinri", 95>>
    ELSE IF DLt(age, DFromInt(48)) THEN <<"jin 2 tian", 85>>
    ELSE IF DLt(age, DFromInt(72)) THEN <<"jin 3 tian", 70>>
    ELSE IF DLt(age, DFromInt(168)) THEN <<"jin yi zhou", 50>>
    ELSE IF DLt(age, DFromInt(720)) THEN <<"jin yi yue", 30>>
    ELSE <<"jiaojiu", 10>>

time_score_aged(age) ==
    [time_freshness |-> Lit(age_band(age)[1]), time_score |-> age_band(age)[2],
     time_reasoning |-> Lit("published ") \o <<FloatTok(age)>> \o Lit(" hours ago")]

time_score(timestamp) ==
    IF ~Truthy(timestamp)
    THEN [time_freshness |-> Lit("weizhi"), time_score |-> 50,
          time_reasoning |-> Lit("no timestamp, timeliness cannot be judged")]
    ELSE time_score_aged(DDivInt(DFromInt(timestamp.elapsed), SECONDS_PER_HOUR))

\* lines 297-337: the verdict of the usable grounded freshness rounds
multi_round_score(time, content_freshness, avg_web_score) ==
    DAdd(DAdd(DMul(DFromInt(time.time_score), DLit(25, 100)),
              DMul(avg_web_score, DLit(55, 100))),
         DMul(NumOf(content_freshness.d["score"]), DLit(20, 100)))

multi_round_level(final_score) ==
    IF DGe(final_score, DFromInt(85)) THEN "zuixin"
    ELSE IF DGe(final_score, DFromInt(70)) THEN "jiaoxin"
    ELSE IF DGe(final_score, DFromInt(50)) THEN "yiban"
    ELSE "guoshi"

multi_round_reasoning(is_fresh, avg_web_score, n) ==
    IF is_fresh /\ DGe(avg_web_score, DFromInt(85))
    THEN Lit("sources agree, content very fresh (") \o n \o Lit(" rounds)")
    ELSE IF is_fresh /\ DGe(avg_web_score, DFromInt(70))
    THEN Lit("sources mostly agree, content fresh (") \o n \o Lit(" rounds)")
    ELSE IF ~is_fresh
    THEN Lit("sources find the content outdated (") \o n \o Lit(" rounds)")
    ELSE Lit("sources disagree, needs manual review (") \o n \o Lit(" rounds)")

check_freshness_multi_round_avg(time, content_freshness, web_freshness_results, avg_web_score, is_fresh) ==
    PyDict([is_fresh |-> PyBool(is_fresh),
            freshness_level |->
                PyStr(Lit(multi_round_level(
                    multi_round_score(time, content_freshness, avg_web_score)))),
            score |-> PyNum(multi_round_score(time, content_freshness, avg_web_score)),
            time_freshness |-> PyStr(time.time_freshness),
            time_score |-> PyInt(time.time_score),
            content_freshness |-> content_freshness,
            web_freshness |-> PyList(web_freshness_results),
            reasoning |-> PyStr(Lit("time: ") \o time.time_reasoning
                                \o Lit(", content: ")
                                \o content_freshness.d["reasoning"].s
                                \o Lit(", web search: ")
                                \o multi_round_reasoning(
                                       is_fresh, avg_web_score,
                                       <<IntTok(Len(web_freshness_results))>>)),
            method |-> PyStr(Lit("multi_source_web_search")),
            search_results |-> PyList(ExtendAll(web_freshness_results, "search_results")),
            verification_count |-> PyInt(Len(web_freshness_results))])

check_freshness_multi_round(time, content_freshness, web_freshness_results) ==
    check_freshness_multi_round_avg(time, content_freshness, web_freshness_results,
                                    Average(web_freshness_results, "score"),
                                    AllTruthy(web_freshness_results, "is_fresh"))

\* lines 339-364: the verdict from the time score and the content score alone
hybrid_level(final_score) ==
    IF DGe(final_score, DFromInt(80)) THEN <<TRUE, "zuixin">>
    ELSE IF DGe(final_score, DFromInt(60)) THEN <<TRUE, "jiaoxin">>
    ELSE IF DGe(final_score, DFromInt(40)) THEN <<FALSE, "yiban">>
    ELSE <<FALSE, "guoshi">>

hybrid_score(time, content_freshness) ==
    DAdd(DMul(DFromInt(time.time_score), DLit(4, 10)),
         DMul(NumOf(content_freshness.d["score"]), DLit(6, 10)))

check_freshness_hybrid_scored(time, content_freshness, final_score) ==
        PyDict([is_fresh |-> PyBool(hybrid_level(final_score)[1]),
                freshness_level |-> PyStr(Lit(hybrid_level(final_score)[2])),
                score |-> PyNum(final_score),
                time_freshness |-> PyStr(time.time_freshness),
                time_score |-> PyInt(time.time_score),
                content_freshness |-> content_freshness,
                reasoning |-> PyStr(Lit("time: ") \o time.time_reasoning
                                    \o Lit(", content: ")
                                    \o content_freshness.d["reasoning"].s
                                    \o Lit(" (web search verification not enabled)")),
                method |-> PyStr(Lit("hybrid")),
                warning |-> PyStr(Lit("web search verification not enabled"))])

check_freshness_hybrid(time, content_freshness) ==
    check_freshness_hybrid_scored(time, content_freshness,
                                  hybrid_score(time, content_freshness))

\* lines 366-377: the except handler
check_freshness_failed(msg) ==
    PyDict([is_fresh |-> PyNone,
            freshness_level |-> PyStr(Lit("weizhi")),
            score |-> PyInt(0),
            time_freshness |-> PyStr(Lit("weizhi")),
            time_score |-> PyInt(0),
            content_freshness |-> PyDict(<<>>),
            reasoning |-> PyStr(Lit("check failed: ") \o msg),
            method |-> PyStr(Lit("hybrid"))])

\* lines 248-364: the body of the try statement
check_freshness_branches(time, content_freshness, api_key, rounds) ==
    IF api_key.raised THEN Lift(api_key, <<>>)
    ELSE IF ~Truthy(api_key.value)
    THEN Ret(check_freshness_hybrid(time, content_freshness), <<>>)
    ELSE IF rounds.raised THEN rounds
    ELSE IF rounds.value # <<>>
    THEN Ret(check_freshness_multi_round(time, content_freshness, rounds.value),
             rounds.calls)
    ELSE Ret(check_freshness_hybrid(time, content_freshness), rounds.calls)

check_freshness_try(self, content, topic, timestamp) ==
    check_freshness_branches(
        time_score(timestamp),
        _analyze_content_freshness(content, topic),
        GetAttr(self.web_searcher, "api_key"),
        GroundedRounds(2, WebSearcher_check_freshness_with_search(topic, content),
                       "score", "web_searcher.check_freshness_with_search"))

\* lines 248 and 366-377: what the try statement makes of its body's outcome
check_freshness_except(body) ==
    IF body.raised THEN Ret(check_freshness_failed(body.msg), body.calls) ELSE body

check_freshness(self, content, topic, timestamp) ==
    check_freshness_except(check_freshness_try(self, content, topic, timestamp))

\* lines 432-441: search results at hand, no generation client
cross_reference_no_client_after_search ==
    PyDict([is_consistent |-> PyNone,
            confidence |-> PyInt(50),
            known_facts |-> PyList(<<>>),
            contradictions |-> PyList(<<>>),
            additional_context |-> PyStr(<<>>),
            reasoning |-> PyStr(Lit("API Key not configured, cannot verify")),
            method |-> PyStr(Lit("none"))])

\* lines 463-472
cross_reference_not_configured ==
    PyDict([is_consistent |-> PyNone,
            confidence |-> PyInt(0),
            known_facts |-> PyList(<<>>),
            contradictions |-> PyList(<<>>),
            additional_context |-> PyStr(<<>>),
            reasoning |-> PyStr(Lit("API Key not configured, cannot verify")),
            method |-> PyStr(Lit("none"))])

\* the except handler leaving the method of the grounded branch in the verdict
cross_reference_failed_web_search(msg) ==
    PyDict([is_consistent |-> PyNone,
            confidence |-> PyInt(0),
            known_facts |-> PyList(<<>>),
            contradictions |-> PyList(<<>>),
            additional_context |-> PyStr(<<>>),
            reasoning |-> PyStr(Lit("verification failed: ") \o msg),
            method |-> PyStr(Lit("web_search"))])

\* lines 512-522: the except handler
cross_reference_failed(msg) ==
    PyDict([is_consistent |-> PyNone,
            confidence |-> PyInt(0),
            known_facts |-> PyList(<<>>),
            contradictions |-> PyList(<<>>),
            additional_context |-> PyStr(<<>>),
            reasoning |-> PyStr(Lit("verification failed: ") \o msg),
            method |-> PyStr(Lit("none"))])

\* d[key] = value on the dict the parser returned; a value that is no dict, list
\* or other container does not support item assignment
SetItem(v, key, value) ==
    IF v.ty = "dict"
    THEN Returned(PyDict([k \in DOMAIN v.d \cup {key} |-> IF k = key THEN value ELSE v.d[k]]))
    ELSE Raised("TypeError", Lit("object does not support item assignment"))

\* lines 397-461: the comparison against the documents found
cross_reference_with_search(self, topic, content, search_results, chat, calls) ==
    IF ~Truthy(self.client) THEN Ret(cross_reference_no_client_after_search, calls)
    ELSE LET response == ChatCompletion(chat)
             parsed_result == _parse_cross_ref_result(response.value.s)
             with_results == SetItem(parsed_result, "search_results", search_results)
             with_method == SetItem(with_results.value, "method", PyStr(Lit("web_search")))
         IN  IF response.raised
             THEN Exc(response.exc, response.msg, calls \o response.calls)
             ELSE IF with_results.raised
             THEN Lift(with_results, calls \o response.calls)
             ELSE Lift(with_method, calls \o response.calls)

\* lines 463-510: the comparison against the provider's own knowledge
cross_reference_knowledge(self, topic, content, chat, calls) ==
    IF ~Truthy(self.client) THEN Ret(cross_reference_not_configured, calls)
    ELSE LET response == ChatCompletion(chat)
         IN  IF response.raised
             THEN Exc(response.exc, response.msg, calls \o response.calls)
             ELSE Ret(_parse_cross_ref_result(response.value.s), calls \o response.calls)

\* lines 391-510: the body of the try statement
cross_reference_branches(self, topic, content, chat, api_key, search_results) ==
    IF api_key.raised THEN Lift(api_key, <<>>)
    ELSE IF ~Truthy(api_key.value)
    THEN cross_reference_knowledge(self, topic, content, chat, <<>>)
    ELSE IF Truthy(search_results.value)
    THEN cross_reference_with_search(self, topic, content, search_results.value,
                                     chat, search_results.calls)
    ELSE cross_reference_knowledge(self, topic, content, chat, search_results.calls)

cross_reference_try(self, topic, content, search, chat) ==
    cross_reference_branches(self, topic, content, chat,
                             GetAttr(self.web_searcher, "api_key"),
                             WebSearcher_search_topic(self.web_searcher, topic, 5, search))

\* lines 390 and 512-522: what the try statement makes of its body's outcome
cross_reference_except(body) ==
    IF body.raised THEN Ret(cross_reference_failed(body.msg), body.calls) ELSE body

cross_reference(self, topic, content, search, chat) ==
    cross_reference_except(cross_reference_try(self, topic, content, search, chat))

\* the levels with exclusive lower bounds
quality_level_strict(overall_score) ==
    IF DCmp(overall_score, DFromInt(90)) > 0 THEN "youxiu"
    ELSE IF DCmp(overall_score, DFromInt(80)) > 0 THEN "lianghao"
    ELSE IF DCmp(overall_score, DFromInt(70)) > 0 THEN "dabiao"
    ELSE IF DCmp(overall_score, DFromInt(60)) > 0 THEN "yiban"
    ELSE IF DCmp(overall_score, DFromInt(50)) > 0 THEN "jiaocha"
    ELSE "hencha"

\* lines 554-571: the quality level of an overall score
quality_level(overall_score) ==
    IF DGe(overall_score, DFromInt(90)) THEN "youxiu"
    ELSE IF DGe(overall_score, DFromInt(80)) THEN "lianghao"
    ELSE IF DGe(overall_score, DFromInt(70)) THEN "dabiao"
    ELSE IF DGe(overall_score, DFromInt(60)) THEN "yiban"
    ELSE IF DGe(overall_score, DFromInt(50)) THEN "jiaocha"
    ELSE "hencha"

recommendation(level) ==
    CASE level = "youxiu" -> "excellent quality, strongly recommend publishing"
      [] level = "lianghao" -> "good quality, recommend publishing"
      [] level = "dabiao" -> "adequate quality, may publish, manual review advised"
      [] level = "yiban" -> "mediocre quality, do not publish, needs revision"
      [] level = "jiaocha" -> "poor quality, do not publish, needs major revision"
      [] OTHER -> "very poor quality, must not publish"

\* the suggestions with the warning of the truth score placed right after the
\* suggestion of the truth score
improvement_suggestions_grouped(truth_score, freshness_score, consistency_score) ==
    (IF DLt(truth_score, DFromInt(70))
     THEN <<PyStr(Lit("truth insufficient: re-verify the facts, add reliable sources"))>>
     ELSE <<>>)
    \o (IF DLt(truth_score, DFromInt(50))
        THEN <<PyStr(Lit("warning: content may contain false information, must be fully re-checked"))>>
        ELSE <<>>)
    \o (IF DLt(freshness_score, DFromInt(70))
        THEN <<PyStr(Lit("freshness insufficient: update the content, add the latest information"))>>
        ELSE <<>>)
    \o (IF DLt(consistency_score, DFromInt(70))
        THEN <<PyStr(Lit("consistency insufficient: check the logic, keep the information consistent"))>>
        ELSE <<>>)
    \o (IF DLt(freshness_score, DFromInt(50))
        THEN <<PyStr(Lit("warning: content may be outdated, fetch the latest news again"))>>
        ELSE <<>>)

\* suggestions that start below 60
improvement_suggestions_lenient(truth_score, freshness_score, consistency_score) ==
    (IF DLt(truth_score, DFromInt(60))
     THEN <<PyStr(Lit("truth insufficient: re-verify the facts, add reliable sources"))>>
     ELSE <<>>)
    \o (IF DLt(freshness_score, DFromInt(60))
        THEN <<PyStr(Lit("freshness insufficient: update the content, add the latest information"))>>
        ELSE <<>>)
    \o (IF DLt(consistency_score, DFromInt(60))
        THEN <<PyStr(Lit("consistency insufficient: check the logic, keep the information consistent"))>>
        ELSE <<>>)
    \o (IF DLt(truth_score, DFromInt(50))
        THEN <<PyStr(Lit("warning: content may contain false information, must be fully re-checked"))>>
        ELSE <<>>)
    \o (IF DLt(freshness_score, DFromInt(50))
        THEN <<PyStr(Lit("warning: content may be outdated, fetch the latest news again"))>>
        ELSE <<>>)

\* lines 573-585
improvement_suggestions(truth_score, freshness_score, consistency_score) ==
    (IF DLt(truth_score, DFromInt(70))
     THEN <<PyStr(Lit("truth insufficient: re-verify the facts, add reliable sources"))>>
     ELSE <<>>)
    \o (IF DLt(freshness_score, DFromInt(70))
        THEN <<PyStr(Lit("freshness insufficient: update the content, add the latest information"))>>
        ELSE <<>>)
    \o (IF DLt(consistency_score, DFromInt(70))
        THEN <<PyStr(Lit("consistency insufficient: check the logic, keep the information consistent"))>>
        ELSE <<>>)
    \o (IF DLt(truth_score, DFromInt(50))
        THEN <<PyStr(Lit("warning: content may contain false information, must be fully re-checked"))>>
        ELSE <<>>)
    \o (IF DLt(freshness_score, DFromInt(50))
        THEN <<PyStr(Lit("warning: content may be outdated, fetch the latest news again"))>>
        ELSE <<>>)

\* the weighted sum with the weights of truth and freshness exchanged
weighted_overall_score_swapped(truth_score, freshness_score, consistency_score) ==
    DAdd(DAdd(DMul(truth_score, DLit(45, 100)), DMul(freshness_score, DLit(35, 100))),
         DMul(consistency_score, DLit(20, 100)))

\* lines 546-550: the weighted sum of the three sub-scores
weighted_overall_score(truth_score, freshness_score, consistency_score) ==
    DAdd(DAdd(DMul(truth_score, DLit(35, 100)), DMul(freshness_score, DLit(45, 100))),
         DMul(consistency_score, DLit(20, 100)))

\* the report with the pass mark at 60
quality_report_pass60(truth_check, freshness_check, consistency_check, truth_score, freshness_score, consistency_score, overall_score, level) ==
    PyDict([overall_score |-> PyNum(overall_score),
            is_pass |-> PyBool(DGe(overall_score, DFromInt(60))),
            quality_level |-> PyStr(Lit(level)),
            truth_check |-> truth_check,
            freshness_check |-> freshness_check,
            consistency_check |-> consistency_check,
            recommendation |-> PyStr(Lit(recommendation(level))),
            improvement_suggestions |->
                PyList(improvement_suggestions(NumOf(truth_score), NumOf(freshness_score),
                                               NumOf(consistency_score))),
            score_breakdown |-> PyDict(
                [truth_score |-> truth_score,
                 freshness_score |-> freshness_score,
                 consistency_score |-> consistency_score,
                 weights |-> PyDict([truth |-> PyNum(DLit(35, 100)),
                                     freshness |-> PyNum(DLit(45, 100)),
                                     consistency |-> PyNum(DLit(20, 100))])])])

\* lines 552-610: the report
quality_report(truth_check, freshness_check, consistency_check, truth_score, freshness_score, consistency_score, overall_score, level) ==
    PyDict([overall_score |-> PyNum(overall_score),
            is_pass |-> PyBool(DGe(overall_score, DFromInt(70))),
            quality_level |-> PyStr(Lit(level)),
            truth_check |-> truth_check,
            freshness_check |-> freshness_check,
            consistency_check |-> consistency_check,
            recommendation |-> PyStr(Lit(recommendation(level))),
            improvement_suggestions |->
                PyList(improvement_suggestions(NumOf(truth_score), NumOf(freshness_score),
                                               NumOf(consistency_score))),
            score_breakdown |-> PyDict(
                [truth_score |-> truth_score,
                 freshness_score |-> freshness_score,
                 consistency_score |-> consistency_score,
                 weights |-> PyDict([truth |-> PyNum(DLit(35, 100)),
                                     freshness |-> PyNum(DLit(45, 100)),
                                     consistency |-> PyNum(DLit(20, 100))])])])

quality_report_scored(truth_check, freshness_check, consistency_check, truth_score, freshness_score, consistency_score, overall_score) ==
    quality_report(truth_check, freshness_check, consistency_check,
                   truth_score, freshness_score, consistency_score, overall_score,
                   quality_level(overall_score))

\* lines 542-550: the sub-scores taken from the verdicts.  No try statement
\* encloses lines 538-610: a verdict that is no dict, or a sub-score that is no
\* number, raises to the caller.
comprehensive_check_scores(truth_check, freshness_check, consistency_check, truth_score, freshness_score, consistency_score) ==
    IF truth_score.raised THEN truth_score
    ELSE IF freshness_score.raised THEN freshness_score
    ELSE IF consistency_score.raised THEN consistency_score
    ELSE IF ~IsNumber(truth_score.value) \/ ~IsNumber(freshness_score.value)
            \/ ~IsNumber(consistency_score.value)
    THEN TypeErrorOperand
    ELSE Returned(quality_report_scored(
             truth_check, freshness_check, consistency_check,
             truth_score.value, freshness_score.value, consistency_score.value,
             weighted_overall_score(NumOf(truth_score.value), NumOf(freshness_score.value),
                                    NumOf(consistency_score.value))))

\* lines 542-610 of comprehensive_check
comprehensive_check_aggregate(truth_check, freshness_check, consistency_check) ==
    comprehensive_check_scores(truth_check, freshness_check, consistency_check,
                               DictGet(truth_check, "confidence", PyInt(0)),
                               DictGet(freshness_check, "score", PyInt(0)),
                               DictGet(consistency_check, "confidence", PyInt(0)))

(***************************************************************************)
(* ContentImprover (src/src/content_improver.py)                           *)
(***************************************************************************)
\* the positions of the fences after position i
FencesAfter(text, i) == {j \in (i + 1)..Len(text) : text[j] = TokFence}

Min(S) == CHOOSE x \in S : \A y \in S : x <= y

\* where re.search finds the first pattern, a fence followed by the tag json in
\* either case, and the second, a bare fence: the leftmost opening that a
\* later fence closes
TaggedOpenings(text) ==
    {i \in 1..Len(text) : /\ text[i] = TokFence
                          /\ i < Len(text) /\ text[i + 1] \in {TokJsonTag, TokJsonTagUpper}
                          /\ FencesAfter(text, i + 1) # {}}

BareOpenings(text) ==
    {i \in 1..Len(text) : text[i] = TokFence /\ FencesAfter(text, i) # {}}

\* clean_json_response: the lazy group up to the next fence, stripped; the text
\* itself, stripped, when it holds no closed code block
clean_json_response(text) ==
    IF text = <<>> THEN text
    ELSE IF TaggedOpenings(text) # {}
    THEN LET i == Min(TaggedOpenings(text))
         IN  Strip(SubSeq(text, i + 2, Min(FencesAfter(text, i + 1)) - 1))
    ELSE IF BareOpenings(text) # {}
    THEN LET i == Min(BareOpenings(text))
         IN  Strip(SubSeq(text, i + 1, Min(FencesAfter(text, i)) - 1))
    ELSE Strip(text)

ContentImprover_init(api_key, GLM_API_KEY) ==
    [api_key |-> IF Truthy(api_key) THEN api_key ELSE GLM_API_KEY]

\* '\n'.join(collected_text)
RECURSIVE JoinLines(_)
JoinLines(texts) ==
    IF texts = <<>> THEN <<>>
    ELSE IF Len(texts) = 1 THEN texts[1]
    ELSE texts[1] \o <<TokNewline>> \o JoinLines(Tail(texts))

\* a request that is sent a second time when the first one raises
_make_glm_request_retrying(self, glm) ==
    IF ~Truthy(self.api_key) THEN Exc("ValueError", Lit("GLM API Key not configured"), <<>>)
    ELSE CASE glm.k = "post_raises" ->
                  Exc("Timeout", Lit("Read timed out."), <<"requests.post", "requests.post">>)
           [] glm.k \in {"status", "bad_body", "error", "no_output"} ->
                  Exc("Exception", Lit("API error"), <<"requests.post">>)
           [] OTHER ->
                  IF SelectSeq(glm.texts, LAMBDA x : x # <<>>) = <<>>
                  THEN Exc("Exception", Lit("no text content in the GLM-4.7 response"),
                           <<"requests.post">>)
                  ELSE Ret(PyStr(JoinLines(SelectSeq(glm.texts, LAMBDA x : x # <<>>))),
                           <<"requests.post">>)

\* _make_glm_request: the text of the response, or the exception of lines 61,
\* 112, 122, 124, 129, 132 and 154, logged and raised again
_make_glm_request(self, glm) ==
    IF ~Truthy(self.api_key) THEN Exc("ValueError", Lit("GLM API Key not configured"), <<>>)
    ELSE CASE glm.k = "post_raises" ->
                  Exc("Timeout", Lit("Read timed out."), <<"requests.post">>)
           [] glm.k = "status" ->
                  Exc("Exception", Lit("HTTP error: ") \o <<IntTok(glm.code)>>,
                      <<"requests.post">>)
           [] glm.k = "bad_body" ->
                  Exc("JSONDecodeError", Lit("Expecting value"), <<"requests.post">>)
           [] glm.k = "error" ->
                  Exc("Exception", Lit("API error"), <<"requests.post">>)
           [] glm.k = "no_output" ->
                  Exc("Exception", Lit("no output field in the response"),
                      <<"requests.post">>)
           [] OTHER ->
                  \* collected_text: the non-empty output_text items of the response
                  IF SelectSeq(glm.texts, LAMBDA x : x # <<>>) = <<>>
                  THEN Exc("Exception", Lit("no text content in the GLM-4.7 response"),
                           <<"requests.post">>)
                  ELSE Ret(PyStr(JoinLines(SelectSeq(glm.texts, LAMBDA x : x # <<>>))),
                           <<"requests.post">>)

\* x < 70 and f"{x:.1f}" need a number
NeedsNumber(o) ==
    IF o.raised THEN o
    ELSE IF IsNumber(o.value) THEN o
    ELSE Raised("TypeError", Lit("unsupported format string or comparison"))

\* d[k1][k2]
DictItem2(v, k1, k2) ==
    LET inner == DictItem(v, k1)
    IN  IF inner.raised THEN inner ELSE DictItem(inner.value, k2)

\* improvement_needs.extend(check_result['improvement_suggestions'])
SuggestionsOf(check_result) ==
    LET given == DictGet(check_result, "improvement_suggestions", PyNone).value
    IN  IF ~Truthy(given) THEN Returned(<<>>)
        ELSE IF given.ty = "list" THEN Returned(given.l)
        ELSE IF given.ty = "str" THEN Returned([i \in 1..Len(given.s) |-> PyStr(<<given.s[i]>>)])
        ELSE Raised("TypeError", Lit("object is not iterable"))

\* lines 193-208: the list of needs put into the request, numbered in this order
\* one need of lines 199-204
Need(score, text) ==
    IF DLt(NumOf(score.value), DFromInt(70))
    THEN <<PyStr(Lit(text) \o <<FloatTok(NumOf(score.value))>> \o Lit(" is too low"))>>
    ELSE <<>>

\* a list of needs that is the list of suggestions and nothing else
improvement_needs_of_suggestions_only(truth_score, freshness_score, consistency_score, overall_score, suggestions) ==
    IF truth_score.raised THEN truth_score
    ELSE IF freshness_score.raised THEN freshness_score
    ELSE IF consistency_score.raised THEN consistency_score
    ELSE IF overall_score.raised THEN overall_score
    ELSE suggestions

improvement_needs_of(truth_score, freshness_score, consistency_score, overall_score, suggestions) ==
    IF truth_score.raised THEN truth_score
    ELSE IF freshness_score.raised THEN freshness_score
    ELSE IF consistency_score.raised THEN consistency_score
    ELSE IF overall_score.raised THEN overall_score
    ELSE IF suggestions.raised THEN suggestions
    ELSE Returned(Need(truth_score, "truth score ")
                  \o Need(freshness_score, "freshness score ")
                  \o Need(consistency_score, "consistency score ")
                  \o suggestions.value)

improvement_needs(check_result) ==
    improvement_needs_of(
        NeedsNumber(DictItem2(check_result, "score_breakdown", "truth_score")),
        NeedsNumber(DictItem2(check_result, "score_breakdown", "freshness_score")),
        NeedsNumber(DictItem2(check_result, "score_breakdown", "consistency_score")),
        NeedsNumber(DictItem(check_result, "overall_score")),
        SuggestionsOf(check_result))

\* len(improvements) and imp.get('issue', '') for every item, as the logging of
\* lines 265-267 evaluates them
LogImprovements(improvements) ==
    CASE improvements.ty = "list" ->
             IF \A i \in 1..Len(improvements.l) : improvements.l[i].ty = "dict"
             THEN Returned(PyNone)
             ELSE Raised("AttributeError", Lit("object has no attribute 'get'"))
      [] improvements.ty = "str" ->
             IF improvements.s = <<>> THEN Returned(PyNone)
             ELSE Raised("AttributeError", Lit("'str' object has no attribute 'get'"))
      [] improvements.ty = "dict" ->
             IF DOMAIN improvements.d = {} THEN Returned(PyNone)
             ELSE Raised("AttributeError", Lit("'str' object has no attribute 'get'"))
      [] OTHER -> Raised("TypeError", Lit("object has no len()"))

\* the results of improve_content
improve_content_result(success, improved_content, improvements, reasoning) ==
    PyDict([success |-> PyBool(success),
            improved_content |-> improved_content,
            improvements |-> improvements,
            reasoning |-> PyStr(reasoning)])

\* lines 258-285: the inner try statement
\* lines 261-276: the fields of the parsed result
improve_content_parsed(improved_content, improvements, reasoning) ==
    IF improved_content.raised THEN improved_content
    ELSE IF LogImprovements(improvements.value).raised
    THEN LogImprovements(improvements.value)
    ELSE Returned([ty |-> "dict",
                   d |-> [success |-> PyBool(TRUE),
                          improved_content |-> improved_content.value,
                          improvements |-> improvements.value,
                          reasoning |-> reasoning.value]])

\* json.loads and an except clause that returns no content
improve_content_loaded_drops(content, result) ==
    IF result.raised
    THEN Returned(improve_content_result(FALSE, PyStr(<<>>), PyList(<<>>),
                                         Lit("parse failed: ") \o result.msg))
    ELSE improve_content_parsed(
             DictGet(result.value, "improved_content", PyStr(content)),
             DictGet(result.value, "improvements", PyList(<<>>)),
             DictGet(result.value, "reasoning", PyStr(<<>>)))

\* lines 259-285: json.loads and its except clause
improve_content_loaded(content, result) ==
    IF result.raised
    THEN Returned(improve_content_result(FALSE, PyStr(content), PyList(<<>>),
                                         Lit("parse failed: ") \o result.msg))
    ELSE improve_content_parsed(
             DictGet(result.value, "improved_content", PyStr(content)),
             DictGet(result.value, "improvements", PyList(<<>>)),
             DictGet(result.value, "reasoning", PyStr(<<>>)))

improve_content_parse(content, result_text) ==
    improve_content_loaded(content, JsonLoads(clean_json_response(result_text)))

\* lines 191-285: the body of the outer try statement
improve_content_request(content, needs, result_text) ==
    IF needs.raised THEN Lift(needs, <<>>)
    ELSE IF result_text.raised THEN result_text
    ELSE Lift(improve_content_parse(content, result_text.value.s), result_text.calls)

improve_content_try(self, topic, content, check_result, glm) ==
    improve_content_request(content, improvement_needs(check_result),
                            _make_glm_request(self, glm))

\* lines 190 and 287-294: what the outer try statement makes of its body
improve_content_except(content, body) ==
    IF body.raised
    THEN Ret(improve_content_result(FALSE, PyStr(content), PyList(<<>>),
                                    Lit("improvement failed: ") \o body.msg),
             body.calls)
    ELSE body

improve_content(self, topic, content, check_result, glm) ==
    IF ~Truthy(self.api_key)
    THEN Ret(improve_content_result(FALSE, PyStr(content), PyList(<<>>),
                                    Lit("API Key not configured, cannot improve")),
             <<>>)
    ELSE improve_content_except(
             content, improve_content_try(self, topic, content, check_result, glm))

(***************************************************************************)
(* The inputs and the behaviour of the providers                           *)
(***************************************************************************)
\* the longest content, in words
MaxContentLen == 2

\* the most documents one search returns
MaxDocs == 1

ContentWords == {"zuixin", "Beta"}

\* the texts of at most n words taken from words
RECURSIVE TextsOver(_, _)
TextsOver(words, n) ==
    IF n = 0 THEN {<<>>}
    ELSE LET shorter == TextsOver(words, n - 1)
         IN  shorter \cup {s \o <<[t |-> w]>> : s \in {x \in shorter : Len(x) = n - 1},
                                                w \in words}

Contents == TextsOver(ContentWords, MaxContentLen)

TheTopic == Lit("DeepSeek R1")

\* no timestamp, or one 30 minutes or 24 hours old
Timestamps == {PyNone} \cup {PyDatetime(sec) : sec \in {1800, 86400}}

AKey == PyStr(Lit("sk-key"))

Keys == {PyNone, AKey}

\* what the generation provider may answer to a verification request whose
\* structured answer carries the boolean under the key flag
VerdictObject(flag, value, confidence) ==
    PyDict([k \in {flag, "confidence", "reasoning"} |->
               CASE k = flag -> value
                 [] k = "confidence" -> confidence
                 [] OTHER -> PyStr(Lit("because"))])

JsonValues(flag) ==
    {VerdictObject(flag, PyBool(TRUE), PyInt(95)),
     VerdictObject(flag, PyBool(FALSE), PyInt(30)),
     VerdictObject(flag, PyBool(TRUE), PyInt(150)),
     VerdictObject(flag, PyBool(TRUE), PyStr(Lit("high"))),
     VerdictObject(flag, PyNone, PyNone),
     PyDict([k \in {flag} |-> PyBool(TRUE)]),
     PyList(<<PyInt(95)>>),
     PyInt(80),
     PyStr(Lit("true")),
     PyNone}

ResponseTexts(flag) ==
    {<<>>, <<TokProse>>}
    \cup {<<TokValue(v)>> : v \in JsonValues(flag)}
    \cup {<<TokNewline, TokValue(VerdictObject(flag, PyBool(TRUE), PyInt(95))), TokSpace>>,
          <<TokProse, TokValue(VerdictObject(flag, PyBool(TRUE), PyInt(95)))>>,
          <<TokFence, TokJsonTag, TokNewline,
            TokValue(VerdictObject(flag, PyBool(TRUE), PyInt(95))), TokNewline, TokFence>>}

ChatOutcomes(flag) ==
    {[k |-> "raise"], [k |-> "none"]}
    \cup {[k |-> "text", text |-> x] : x \in ResponseTexts(flag)}

SearchOutcomes == {[k |-> "raise"]} \cup {[k |-> "results", n |-> n] : n \in 0..MaxDocs}

\* what the generation provider may answer to an improvement request
ImprovementObject(improvements) ==
    PyDict([improved_content |-> PyStr(Lit("zuixin fabu 2026")),
            improvements |-> improvements,
            reasoning |-> PyStr(Lit("because"))])

AnImprovement ==
    PyDict([issue |-> PyStr(Lit("issue")), action |-> PyStr(Lit("action")),
            before |-> PyStr(Lit("before")), after |-> PyStr(Lit("after"))])

ImprovementValues ==
    {ImprovementObject(PyList(<<AnImprovement>>)),
     ImprovementObject(PyList(<<>>)),
     ImprovementObject(PyNone),
     ImprovementObject(PyList(<<PyStr(Lit("issue"))>>)),
     PyDict([reasoning |-> PyStr(Lit("because"))]),
     PyList(<<AnImprovement>>),
     PyStr(Lit("zuixin fabu 2026")),
     PyNone}

GoodImprovement == TokValue(ImprovementObject(PyList(<<AnImprovement>>)))

\* an answer whose improved content holds a fenced code block
FencedImprovement ==
    PyDict([improved_content |-> PyStr(Lit("zuixin fabu ") \o <<TokFence, TokProse, TokFence>>),
            improvements |-> PyList(<<AnImprovement>>),
            reasoning |-> PyStr(Lit("because"))])

ImprovementTexts ==
    {<<TokProse>>, <<TokFence, TokJsonTag, TokNewline, GoodImprovement>>,
     <<TokFence, TokJsonTag, TokNewline, GoodImprovement, TokNewline, TokFence>>,
     <<TokProse, TokNewline, TokFence, TokJsonTagUpper, GoodImprovement, TokFence, TokProse>>,
     <<TokFence, TokNewline, GoodImprovement, TokNewline, TokFence>>,
     <<TokFence, TokProse, TokNewline, GoodImprovement, TokNewline, TokFence>>,
     <<TokFence, TokJsonTag, TokNewline, TokProse, TokFence>>,
     <<GoodImprovement, TokProse>>,
     FencedLiteral(FencedImprovement),
     <<TokFence, TokJsonTag, TokNewline>> \o FencedLiteral(FencedImprovement)
         \o <<TokNewline, TokFence>>}
    \cup {<<TokValue(v)>> : v \in ImprovementValues}

GlmOutcomes ==
    {[k |-> "post_raises"], [k |-> "status", code |-> 500], [k |-> "bad_body"],
     [k |-> "error"], [k |-> "no_output"],
     [k |-> "output", texts |-> <<>>], [k |-> "output", texts |-> << <<>> >>],
     [k |-> "output", texts |-> <<<<TokProse>>, <<GoodImprovement>>>>]}
    \cup {[k |-> "output", texts |-> <<x>>] : x \in ImprovementTexts}

(***************************************************************************)
(* The program: a FactChecker built from the keys of the environment, and  *)
(* a caller that runs comprehensive_check and then, possibly, builds a     *)
(* ContentImprover and runs improve_content on the report.                 *)
(***************************************************************************)
VARIABLES
    fact_checker,       \* the FactChecker instance
    improver,           \* the ContentImprover instance, once built
    pc,                 \* where the caller stands
    topic, content, timestamp,  \* the arguments of the running call
    provider,           \* how the providers answer during the step just taken
    truth_check, freshness_check, consistency_check,    \* locals of comprehensive_check
    outcome,            \* what comprehensive_check returned or raised
    improved,           \* what improve_content returned or raised
    earlier,            \* the reports of earlier checks that the caller still holds
    locals,             \* locals of the running operation: check_freshness's scores
                        \* at line 283, improve_content's improvement_needs at line 208
    calls               \* the provider calls of the running operation, in order

vars == <<fact_checker, improver, pc, topic, content, timestamp, provider,
          truth_check, freshness_check, consistency_check, outcome, improved, locals,
          calls, earlier>>

Unset == [ty |-> "unset"]

NoProvider == [step |-> "none"]

Init ==
    /\ fact_checker \in {FactChecker_init(k, t, d) : k \in Keys, t \in Keys, d \in Keys}
    /\ improver = Unset
    /\ pc = "idle"
    /\ topic = TheTopic
    /\ content = <<>>
    /\ timestamp = PyNone
    /\ provider = NoProvider
    /\ truth_check = Unset
    /\ freshness_check = Unset
    /\ consistency_check = Unset
    /\ outcome = Unset
    /\ improved = Unset
    /\ locals = Unset
    /\ calls = <<>>
    /\ earlier = <<>>

\* the caller enters comprehensive_check(topic, content, timestamp)
Call ==
    /\ pc = "idle"
    /\ \E c \in Contents, ts \in Timestamps :
           /\ content' = c
           /\ timestamp' = ts
    /\ pc' = "verify_claim"
    /\ truth_check' = Unset
    /\ freshness_check' = Unset
    /\ consistency_check' = Unset
    /\ outcome' = Unset
    /\ improved' = Unset
    /\ calls' = <<>>
    /\ provider' = NoProvider
    /\ improver' = Unset
    /\ UNCHANGED <<earlier, locals, fact_checker, topic>>

\* line 538: truth_check = self.verify_claim(content)
VerifyClaim ==
    /\ pc = "verify_claim"
    /\ \E chat \in ChatOutcomes("is_true") :
           \E o \in {verify_claim(fact_checker, content, chat)} :
               /\ provider' = [step |-> "verify_claim", chat |-> chat]
               /\ truth_check' = o.value
               /\ calls' = calls \o o.calls
    /\ pc' = "check_freshness"
    /\ UNCHANGED <<earlier, locals, fact_checker, improver, topic, content, timestamp,
                   freshness_check, consistency_check, outcome, improved>>

\* line 539: freshness_check = self.check_freshness(content, topic, timestamp)
CheckFreshness ==
    /\ pc = "check_freshness"
    /\ \E o \in {check_freshness(fact_checker, content, topic, timestamp)} :
           /\ freshness_check' = o.value
           /\ calls' = calls \o o.calls
    /\ provider' = [step |-> "check_freshness"]
    /\ pc' = "cross_reference"
    /\ UNCHANGED <<earlier, locals, fact_checker, improver, topic, content, timestamp,
                   truth_check, consistency_check, outcome, improved>>

\* line 540: consistency_check = self.cross_reference(topic, content)
CrossReference ==
    /\ pc = "cross_reference"
    /\ \E search \in SearchOutcomes, chat \in ChatOutcomes("is_consistent") :
           \E o \in {cross_reference(fact_checker, topic, content, search, chat)} :
               /\ provider' = [step |-> "cross_reference", search |-> search, chat |-> chat]
               /\ consistency_check' = o.value
               /\ calls' = calls \o o.calls
    /\ pc' = "aggregate"
    /\ UNCHANGED <<earlier, locals, fact_checker, improver, topic, content, timestamp,
                   truth_check, freshness_check, outcome, improved>>

\* a comprehensive_check that starts over when the report does not pass
AggregateRetrying ==
    /\ pc = "aggregate"
    /\ \E o \in {comprehensive_check_aggregate(truth_check, freshness_check,
                                                consistency_check)} :
           IF ~o.raised /\ o.value.d.is_pass = PyBool(FALSE)
           THEN /\ pc' = "verify_claim"
                /\ outcome' = outcome
           ELSE /\ pc' = "checked"
                /\ outcome' = o
    /\ provider' = NoProvider
    /\ UNCHANGED <<earlier, locals, fact_checker, improver, topic, content, timestamp,
                   truth_check, freshness_check, consistency_check, improved, calls>>

\* lines 542-610: the report is built and returned, or an exception leaves
\* comprehensive_check
Aggregate ==
    /\ pc = "aggregate"
    /\ outcome' = comprehensive_check_aggregate(truth_check, freshness_check,
                                                consistency_check)
    /\ pc' = "checked"
    /\ provider' = NoProvider
    /\ UNCHANGED <<earlier, locals, fact_checker, improver, topic, content, timestamp,
                   truth_check, freshness_check, consistency_check, improved, calls>>

\* what a caller may hand to improve_content: the report it got, or a dict that
\* is no report
CheckResults == {PyDict(<<>>)} \cup (IF outcome.raised THEN {} ELSE {outcome.value})

\* an improve_content that builds its list of needs in the list of the report
ImproveAliasing ==
    /\ pc = "checked"
    /\ \E key \in Keys, glm \in GlmOutcomes, check_result \in CheckResults :
           \E self \in {ContentImprover_init(PyNone, key)} :
           \E o \in {improve_content(self, topic, content, check_result, glm)} :
               /\ improver' = self
               /\ provider' = [step |-> "improve_content", glm |-> glm,
                               check_result |-> check_result]
               /\ improved' = [raised |-> o.raised, value |-> o.value]
               /\ calls' = o.calls
               /\ locals' = IF Truthy(self.api_key)
                             THEN [improvement_needs |-> improvement_needs(check_result)]
                             ELSE Unset
               /\ outcome' =
                      IF Truthy(self.api_key) /\ ~improvement_needs(check_result).raised
                      THEN [outcome EXCEPT !.value =
                               SetItem(@, "improvement_suggestions",
                                       PyList(improvement_needs(check_result).value)).value]
                      ELSE outcome
    /\ pc' = "improved"
    /\ UNCHANGED <<earlier, fact_checker, topic, content, timestamp,
                   truth_check, freshness_check, consistency_check>>

\* the caller runs ContentImprover().improve_content(topic, content, check_result)
Improve ==
    /\ pc = "checked"
    /\ \E key \in Keys, glm \in GlmOutcomes, check_result \in CheckResults :
           \E self \in {ContentImprover_init(PyNone, key)} :
           \E o \in {improve_content(self, topic, content, check_result, glm)} :
               /\ improver' = self
               /\ provider' = [step |-> "improve_content", glm |-> glm,
                               check_result |-> check_result]
               /\ improved' = [raised |-> o.raised, value |-> o.value]
               /\ calls' = o.calls
               /\ locals' = IF Truthy(self.api_key)
                             THEN [improvement_needs |-> improvement_needs(check_result)]
                             ELSE Unset
    /\ pc' = "improved"
    /\ UNCHANGED <<earlier, fact_checker, topic, content, timestamp,
                   truth_check, freshness_check, consistency_check, outcome>>

\* the caller is done with the report
Finish ==
    /\ pc \in {"checked", "improved"}
    /\ pc' = "idle"
    /\ content' = <<>>
    /\ timestamp' = PyNone
    /\ provider' = NoProvider
    /\ truth_check' = Unset
    /\ freshness_check' = Unset
    /\ consistency_check' = Unset
    /\ outcome' = Unset
    /\ improved' = Unset
    /\ calls' = <<>>
    /\ improver' = Unset
    /\ locals' = Unset
    /\ earlier' = <<>>
    /\ UNCHANGED <<fact_checker, topic>>

\* the most reports of earlier checks a caller holds
MaxEarlier == 1

\* the improvement succeeded: the caller keeps the report and runs
\* comprehensive_check again, on the improved content
Recheck ==
    /\ pc = "improved"
    /\ Len(earlier) < MaxEarlier
    /\ ~outcome.raised
    /\ ~improved.raised
    /\ improved.value.d.success = PyBool(TRUE)
    /\ improved.value.d.improved_content.ty = "str"
    /\ content' = improved.value.d.improved_content.s
    /\ earlier' = Append(earlier, outcome.value)
    /\ pc' = "verify_claim"
    /\ truth_check' = Unset
    /\ freshness_check' = Unset
    /\ consistency_check' = Unset
    /\ outcome' = Unset
    /\ improved' = Unset
    /\ calls' = <<>>
    /\ provider' = NoProvider
    /\ locals' = Unset
    /\ UNCHANGED <<fact_checker, improver, topic, timestamp>>

Next == Call \/ VerifyClaim \/ CheckFreshness \/ CrossReference \/ Aggregate
            \/ Improve \/ Finish

Spec == Init /\ [][Next]_vars

\* the step of comprehensive_check that leaves line from for line to.  Each of
\* VerifyClaim, CheckFreshness, CrossReference and Aggregate is enabled exactly
\* where pc stands at its line and is the only step of Next that moves pc from
\* there, so fairness of these steps is fairness of the four actions.
Returns(from, to) == pc = from /\ pc' = to

\* comprehensive_check, once entered, takes its next step: every operation and
\* every provider call it waits for returns or raises
SpecLive ==
    Init /\ [][Next]_vars
         /\ WF_pc(Returns("verify_claim", "check_freshness"))
         /\ WF_pc(Returns("check_freshness", "cross_reference"))
         /\ WF_pc(Returns("cross_reference", "aggregate"))
         /\ WF_pc(Returns("aggregate", "checked"))

\* the improvement cycle: check, improve, check the improved content
SpecCycle == Init /\ [][Next \/ Recheck]_vars

(***************************************************************************)
(* The aggregation of lines 542-610 on its own: comprehensive_check stands *)
(* at line 542 with three verdicts whose sub-scores are drawn from a grid  *)
(* of numbers in 0..100.                                                   *)
(***************************************************************************)
\* 69.5 is the one sub-score of the grid that is no int
ScoreGrid ==
    {PyInt(n) : n \in {0, 12, 40, 50, 60, 67, 70, 72, 80, 90, 100}}
    \cup {PyNum(DLit(139, 2))}

WithScore(verdict, key, score) == SetItem(verdict, key, score).value

InitAggregate ==
    /\ fact_checker = FactChecker_init(AKey, AKey, AKey)
    /\ improver = Unset
    /\ pc = "aggregate"
    /\ topic = TheTopic
    /\ content = <<>>
    /\ timestamp = PyNone
    /\ provider = NoProvider
    /\ truth_check \in {WithScore(verify_claim_not_configured, "confidence", x) :
                           x \in ScoreGrid}
    /\ freshness_check \in {WithScore(check_freshness_failed(<<>>), "score", x) :
                               x \in ScoreGrid}
    /\ consistency_check \in {WithScore(cross_reference_not_configured, "confidence", x) :
                                 x \in ScoreGrid}
    /\ outcome = Unset
    /\ improved = Unset
    /\ locals = Unset
    /\ calls = <<>>
    /\ earlier = <<>>

SpecAggregate == InitAggregate /\ [][Aggregate]_vars

(***************************************************************************)
(* improve_content on the report of an aggregation: comprehensive_check    *)
(* stands at line 542 with sub-scores at and around the thresholds 50 and  *)
(* 70, returns its report, and the caller hands it to improve_content.     *)
(***************************************************************************)
InitImprove ==
    /\ fact_checker = FactChecker_init(AKey, AKey, AKey)
    /\ improver = Unset
    /\ pc = "aggregate"
    /\ topic = TheTopic
    /\ content = <<>>
    /\ timestamp = PyNone
    /\ provider = NoProvider
    /\ \E t, f, c \in {PyInt(0), PyInt(50), PyNum(DLit(139, 2)), PyInt(70), PyInt(100)} :
           /\ truth_check = WithScore(verify_claim_not_configured, "confidence", t)
           /\ freshness_check = WithScore(check_freshness_failed(<<>>), "score", f)
           /\ consistency_check = WithScore(cross_reference_not_configured, "confidence", c)
    /\ outcome = Unset
    /\ improved = Unset
    /\ locals = Unset
    /\ calls = <<>>
    /\ earlier = <<>>

SpecImprove == InitImprove /\ [][Aggregate \/ Improve]_vars

(***************************************************************************)
(* Lines 538-540 with the three computations run in any order: the answers *)
(* the providers give to each computation are fixed when the call starts,  *)
(* and a scheduler runs verify_claim, check_freshness and cross_reference  *)
(* once each, in an order of its choice, before line 542 is reached.       *)
(***************************************************************************)
InitAnyOrder ==
    /\ fact_checker \in {FactChecker_init(k, t, d) : k \in Keys, t \in Keys, d \in Keys}
    /\ improver = Unset
    /\ pc = "any_order"
    /\ topic = TheTopic
    /\ content \in {c \in Contents : Len(c) <= 1}
    /\ timestamp \in Timestamps
    /\ provider \in {[step |-> "any_order", order |-> <<>>, truth_chat |-> t, search |-> s,
                       consistency_chat |-> c] :
                          t \in {[k |-> "raise"],
                                  [k |-> "text",
                                   text |-> <<TokValue(VerdictObject("is_true", PyBool(TRUE), PyInt(95)))>>]},
                          s \in SearchOutcomes,
                          c \in {[k |-> "raise"],
                                  [k |-> "text",
                                   text |-> <<TokValue(VerdictObject("is_consistent", PyBool(TRUE), PyInt(95)))>>]}}
    /\ truth_check = Unset
    /\ freshness_check = Unset
    /\ consistency_check = Unset
    /\ outcome = Unset
    /\ improved = Unset
    /\ locals = Unset
    /\ calls = <<>>
    /\ earlier = <<>>

\* a computation that leaves the key it read on the searcher all three share
ComputeVerdictSharing ==
    /\ pc = "any_order"
    /\ \E step \in {"verify_claim", "check_freshness", "cross_reference"} :
           /\ \A i \in 1..Len(provider.order) : provider.order[i] # step
           /\ provider' = [provider EXCEPT !.order = Append(@, step)]
           /\ \E o \in {CASE step = "verify_claim" ->
                                verify_claim(fact_checker, content, provider.truth_chat)
                          [] step = "check_freshness" ->
                                check_freshness(fact_checker, content, topic, timestamp)
                          [] OTHER ->
                                cross_reference(fact_checker, topic, content, provider.search,
                                                provider.consistency_chat)} :
                  /\ truth_check' = IF step = "verify_claim" THEN o.value ELSE truth_check
                  /\ freshness_check' = IF step = "check_freshness" THEN o.value
                                        ELSE freshness_check
                  /\ consistency_check' = IF step = "cross_reference" THEN o.value
                                          ELSE consistency_check
                  /\ calls' = calls \o o.calls
           /\ fact_checker' =
                  IF step = "verify_claim"
                  THEN [fact_checker EXCEPT !.web_searcher =
                           WebSearcher_init_with_api_key(@.tavily_api_key, @.legacy_api_key)]
                  ELSE fact_checker
    /\ pc' = IF Len(provider.order) = 2 THEN "aggregate" ELSE "any_order"
    /\ UNCHANGED <<earlier, locals, improver, topic, content, timestamp, outcome, improved>>

\* lines 538-540, one of them: a computation that has not run yet runs and
\* binds its verdict; line 542 is reached when all three have run
ComputeVerdict ==
    /\ pc = "any_order"
    /\ \E step \in {"verify_claim", "check_freshness", "cross_reference"} :
           /\ \A i \in 1..Len(provider.order) : provider.order[i] # step
           /\ provider' = [provider EXCEPT !.order = Append(@, step)]
           /\ \E o \in {CASE step = "verify_claim" ->
                                verify_claim(fact_checker, content, provider.truth_chat)
                          [] step = "check_freshness" ->
                                check_freshness(fact_checker, content, topic, timestamp)
                          [] OTHER ->
                                cross_reference(fact_checker, topic, content, provider.search,
                                                provider.consistency_chat)} :
                  /\ truth_check' = IF step = "verify_claim" THEN o.value ELSE truth_check
                  /\ freshness_check' = IF step = "check_freshness" THEN o.value
                                        ELSE freshness_check
                  /\ consistency_check' = IF step = "cross_reference" THEN o.value
                                          ELSE consistency_check
                  /\ calls' = calls \o o.calls
    /\ pc' = IF Len(provider.order) = 2 THEN "aggregate" ELSE "any_order"
    /\ UNCHANGED <<earlier, locals, fact_checker, improver, topic, content, timestamp, outcome,
                   improved>>

SpecAnyOrder == InitAnyOrder /\ [][ComputeVerdict \/ Aggregate]_vars

(***************************************************************************)
(* Lines 250-281 of check_freshness on their own: the time score and the   *)
(* content score are computed from the arguments, before line 283 reads    *)
(* the search key.                                                         *)
(***************************************************************************)
\* no timestamp, or an age in seconds at, one second before and one second
\* after the steps of lines 253-273
FreshnessTimestamps ==
    {PyNone} \cup {PyDatetime(sec) :
                      sec \in {0, 3599, 3600, 3601, 86399, 86400, 86401, 172799, 172800,
                               259199, 259200, 604799, 604800, 2591999, 2592000, 3000000}}

\* The content is made of words with and without a freshness keyword; stable
\* stands in the list of lines 33-44 right before a literal that no comma
\* separates from it.
InitFreshness ==
    /\ fact_checker = FactChecker_init(AKey, AKey, AKey)
    /\ improver = Unset
    /\ pc = "check_freshness"
    /\ topic = TheTopic
    /\ content \in TextsOver({"zuixin", "stable", "Beta", "2026", "plain"},
                            MaxContentLen + 1)
    /\ timestamp \in FreshnessTimestamps
    /\ provider = NoProvider
    /\ truth_check = Unset
    /\ freshness_check = Unset
    /\ consistency_check = Unset
    /\ outcome = Unset
    /\ improved = Unset
    /\ locals = Unset
    /\ calls = <<>>
    /\ earlier = <<>>

\* lines 250-281: time_freshness, time_score, time_reasoning and content_freshness
ScoreFreshness ==
    /\ pc = "check_freshness"
    /\ locals' = [time |-> time_score(timestamp),
                  content_freshness |-> _analyze_content_freshness(content, topic)]
    /\ pc' = "line_283"
    /\ UNCHANGED <<earlier, fact_checker, improver, topic, content, timestamp, provider,
                   truth_check, freshness_check, consistency_check, outcome, improved,
                   calls>>

SpecFreshness == InitFreshness /\ [][ScoreFreshness]_vars

(***************************************************************************)
(* Lines 131-223 of verify_claim on their own: the condition of line 126   *)
(* holds and the two grounded rounds have answered.                        *)
(***************************************************************************)
\* what a grounded verification round may answer: a verdict and a confidence
RoundAnswers ==
    {WithScore(WithScore(WebSearcher_verify_fact(<<>>), "is_true", t), "confidence", c) :
        t \in {PyBool(TRUE), PyBool(FALSE), PyNone},
        c \in {PyInt(0), PyInt(55), PyInt(70), PyInt(90)}}

InitConsensus ==
    /\ fact_checker \in {FactChecker_init(k, AKey, AKey) : k \in Keys}
    /\ improver = Unset
    /\ pc = "verify_claim"
    /\ topic = TheTopic
    /\ content = <<>>
    /\ timestamp = PyNone
    /\ provider \in {[step |-> "rounds", results |-> <<a, b>>] :
                         a \in RoundAnswers, b \in RoundAnswers}
    /\ truth_check = Unset
    /\ freshness_check = Unset
    /\ consistency_check = Unset
    /\ outcome = Unset
    /\ improved = Unset
    /\ locals = Unset
    /\ calls = <<>>
    /\ earlier = <<>>

\* lines 131-233: the two answers are filtered and aggregated, or the
\* generation provider is asked
Consensus ==
    /\ pc = "verify_claim"
    /\ \E chat \in ChatOutcomes("is_true") :
           \E o \in {verify_claim_except(
                        verify_claim_branches(
                            fact_checker, content, chat, Returned(AKey),
                            RoundsOf(provider.results, "confidence",
                                     "web_searcher.verify_fact")))} :
               /\ provider' = [step |-> "verify_claim", chat |-> chat,
                               results |-> provider.results]
               /\ truth_check' = o.value
               /\ calls' = o.calls
    /\ pc' = "check_freshness"
    /\ UNCHANGED <<earlier, locals, fact_checker, improver, topic, content, timestamp,
                   freshness_check, consistency_check, outcome, improved>>

SpecConsensus == InitConsensus /\ [][Consensus]_vars

(***************************************************************************)
(* The same lines with a round that raises: the call of verify_fact raises *)
(* or its answer carries a confidence that line 135 cannot compare with 0. *)
(***************************************************************************)
InitRaisingRound ==
    /\ fact_checker \in {FactChecker_init(k, AKey, AKey) : k \in Keys}
    /\ improver = Unset
    /\ pc = "verify_claim"
    /\ topic = TheTopic
    /\ content = <<>>
    /\ timestamp = PyNone
    /\ \E a, b \in RoundAnswers
                     \cup {[ty |-> "raise"],
                           WithScore(WebSearcher_verify_fact(<<>>), "confidence", PyNone)} :
           /\ a \notin RoundAnswers \/ b \notin RoundAnswers
           /\ provider = [step |-> "rounds", results |-> <<a, b>>]
    /\ truth_check = Unset
    /\ freshness_check = Unset
    /\ consistency_check = Unset
    /\ outcome = Unset
    /\ improved = Unset
    /\ locals = Unset
    /\ calls = <<>>
    /\ earlier = <<>>

SpecRaisingRound == InitRaisingRound /\ [][Consensus]_vars

(***************************************************************************)
(* Properties                                                              *)
(***************************************************************************)
ReportKeys ==
    {"overall_score", "is_pass", "quality_level", "truth_check", "freshness_check",
     "consistency_check", "recommendation", "improvement_suggestions", "score_breakdown"}

IsQualityReport(v) ==
    /\ v.ty = "dict"
    /\ DOMAIN v.d = ReportKeys
    /\ v.d.overall_score.ty = "num"
    /\ v.d.is_pass.ty = "bool"
    /\ v.d.quality_level.ty = "str"
    /\ v.d.truth_check.ty = "dict"
    /\ v.d.freshness_check.ty = "dict"
    /\ v.d.consistency_check.ty = "dict"
    /\ v.d.improvement_suggestions.ty = "list"
    /\ DOMAIN v.d.score_breakdown.d =
           {"truth_score", "freshness_score", "consistency_score", "weights"}

Reported == pc \in {"checked", "improved"}

EndsWith(s, suffix) ==
    /\ Len(s) >= Len(suffix)
    /\ SubSeq(s, Len(s) - Len(suffix) + 1, Len(s)) = suffix

NoCollaborators ==
    /\ ~Truthy(fact_checker.client)
    /\ ~Truthy(fact_checker.web_searcher.tavily_client)
    /\ ~Truthy(fact_checker.web_searcher.legacy_api_key)

\* the method values of the verdicts a provider took part in (lines 165, 335, 459)
ProviderMethods == {Lit("multi_source_web_search"), Lit("web_search")}

NoProviderMethod(verdict) ==
    /\ "method" \in DOMAIN verdict.d
    /\ verdict.d.method.ty = "str"
    /\ verdict.d.method.s \notin ProviderMethods

\* C2: with no search key and no generation key, comprehensive_check returns a
\* complete report, its overall_score is a number, and the method of each of
\* the three verdicts names no provider.
C2_NoProviderDegradation ==
    (Reported /\ NoCollaborators) =>
        /\ ~outcome.raised
        /\ IsQualityReport(outcome.value)
        /\ IsNumber(outcome.value.d.overall_score)
        /\ NoProviderMethod(outcome.value.d.truth_check)
        /\ NoProviderMethod(outcome.value.d.freshness_check)
        /\ NoProviderMethod(outcome.value.d.consistency_check)
        /\ pc = "checked" => calls = <<>>

C2_Witness ==
    /\ pc = "checked"
    /\ NoCollaborators
    /\ content # <<>>
    /\ ~outcome.raised
    /\ outcome.value.d.overall_score = PyInt(0)
    /\ outcome.value.d.freshness_check.d.method = PyStr(Lit("hybrid"))

NoSearchKey ==
    /\ ~Truthy(fact_checker.web_searcher.tavily_client)
    /\ ~Truthy(fact_checker.web_searcher.legacy_api_key)

\* C3: with no grounded provider configured, check_freshness returns for every
\* content and timestamp the blend 0.4 * time score + 0.6 * content score, never
\* the error verdict (score 0, is_fresh unknown).
C3_FreshnessIsPureBlend ==
    (pc = "cross_reference" /\ NoSearchKey) =>
        /\ freshness_check.d.score =
               PyNum(hybrid_score(time_score(timestamp),
                                  _analyze_content_freshness(content, topic)))
        /\ ~(freshness_check.d.score = PyInt(0) /\ freshness_check.d.is_fresh = PyNone)

SubScore(verdict, key) == NumOf(verdict.d[key])

\* C4: the overall score of a report is 0.35 * truth + 0.45 * freshness +
\* 0.20 * consistency, truth and consistency being the confidence of their
\* verdicts and freshness the score of its verdict; the weights the report
\* publishes are these three, and their sum is exactly 1.0.
C4_WeightedOverallScore ==
    pc = "checked" =>
        /\ ~outcome.raised
        /\ outcome.value.d.score_breakdown.d.weights =
               PyDict([truth |-> PyNum(DLit(35, 100)),
                       freshness |-> PyNum(DLit(45, 100)),
                       consistency |-> PyNum(DLit(20, 100))])
        /\ outcome.value.d.overall_score =
               PyNum(DAdd(DAdd(DMul(DLit(35, 100),
                                    SubScore(outcome.value.d.truth_check, "confidence")),
                               DMul(DLit(45, 100),
                                    SubScore(outcome.value.d.freshness_check, "score"))),
                          DMul(DLit(20, 100),
                               SubScore(outcome.value.d.consistency_check, "confidence"))))
        /\ DAdd(DAdd(DLit(35, 100), DLit(45, 100)), DLit(20, 100)) = DFromInt(1)
        /\ outcome.value.d.truth_check = truth_check
        /\ outcome.value.d.freshness_check = freshness_check
        /\ outcome.value.d.consistency_check = consistency_check

\* truth 12, freshness 72, consistency 67: the report carries the float sum
\* 49.99999999999999..., one unit in the last place below 50
C4_Witness ==
    /\ pc = "checked"
    /\ truth_check.d.confidence = PyInt(12)
    /\ freshness_check.d.score = PyInt(72)
    /\ consistency_check.d.confidence = PyInt(67)
    /\ ~outcome.raised
    /\ DLt(outcome.value.d.overall_score.num, DFromInt(50))
    /\ DCmp(outcome.value.d.overall_score.num, DLit(4999, 100)) > 0

TopLevels == {Lit("youxiu"), Lit("lianghao"), Lit("dabiao")}

\* C5: in every report is_pass is true exactly when overall_score >= 70, and
\* exactly when the quality level is one of the three highest.
C5_PassIffAtLeast70 ==
    (pc = "checked" /\ ~outcome.raised) =>
        /\ (outcome.value.d.is_pass = PyBool(TRUE))
               <=> DGe(outcome.value.d.overall_score.num, DFromInt(70))
        /\ (outcome.value.d.is_pass = PyBool(TRUE))
               <=> (outcome.value.d.quality_level.s \in TopLevels)
        /\ outcome.value.d.is_pass \in {PyBool(TRUE), PyBool(FALSE)}

\* an overall score of exactly 70 passes, at the level dabiao
C5_Witness ==
    /\ pc = "checked"
    /\ ~outcome.raised
    /\ outcome.value.d.overall_score = PyInt(70)
    /\ outcome.value.d.is_pass = PyBool(TRUE)
    /\ outcome.value.d.quality_level = PyStr(Lit("dabiao"))

LevelRank(level) ==
    CASE level = Lit("youxiu") -> 5
      [] level = Lit("lianghao") -> 4
      [] level = Lit("dabiao") -> 3
      [] level = Lit("yiban") -> 2
      [] level = Lit("jiaocha") -> 1
      [] level = Lit("hencha") -> 0

\* C6: the rank of the quality level is the number of the thresholds 50, 60,
\* 70, 80, 90 that overall_score reaches: each threshold belongs to the higher
\* level, and a higher score never has a lower level.
C6_LevelThresholds ==
    (pc = "checked" /\ ~outcome.raised) =>
        LevelRank(outcome.value.d.quality_level.s) =
            Cardinality({th \in {50, 60, 70, 80, 90} :
                            DGe(outcome.value.d.overall_score.num, DFromInt(th))})

\* an overall score of exactly 90 has the highest level
C6_Witness ==
    /\ pc = "checked"
    /\ ~outcome.raised
    /\ outcome.value.d.overall_score = PyInt(90)
    /\ outcome.value.d.quality_level = PyStr(Lit("youxiu"))

\* the failure verdict: the boolean unknown, the number 0, the reasoning ending
\* with the text of the exception
IsFailureVerdict(verdict, flag, number, msg) ==
    /\ verdict.ty = "dict"
    /\ verdict.d[flag] = PyNone
    /\ verdict.d[number] = PyInt(0)
    /\ verdict.d.reasoning.ty = "str"
    /\ EndsWith(verdict.d.reasoning.s, msg)

VerifyClaimBody == verify_claim_try(fact_checker, content, provider.chat)

CheckFreshnessBody == check_freshness_try(fact_checker, content, topic, timestamp)

CrossReferenceBody ==
    cross_reference_try(fact_checker, topic, content, provider.search, provider.chat)

Unparsable(chat) == chat.k = "text" /\ JsonLoads(chat.text).raised

\* C8: where the generation provider answers with a text that does not parse,
\* verify_claim returns is_true unknown, confidence 50 and the raw text as
\* reasoning, and cross_reference returns is_consistent unknown, confidence 50
\* and the raw text as additional_context.
C8_ParseFailureGivesHalfConfidence ==
    /\ (pc = "check_freshness" /\ Truthy(fact_checker.client) /\ Unparsable(provider.chat)) =>
           /\ truth_check.d.is_true = PyNone
           /\ truth_check.d.confidence = PyInt(50)
           /\ truth_check.d.reasoning = PyStr(Strip(provider.chat.text))
    /\ (pc = "aggregate" /\ Truthy(fact_checker.client) /\ Unparsable(provider.chat)) =>
           /\ consistency_check.d.is_consistent = PyNone
           /\ consistency_check.d.confidence = PyInt(50)
           /\ consistency_check.d.additional_context = PyStr(Strip(provider.chat.text))

\* C9: with no generation provider configured cross_reference returns
\* is_consistent unknown, confidence 0 and the reasoning "not configured",
\* whether or not a search provider is configured and documents were found.
C9_NotConfiguredVerdict ==
    (pc = "aggregate" /\ ~Truthy(fact_checker.client)) =>
        /\ consistency_check.d.is_consistent = PyNone
        /\ consistency_check.d.confidence = PyInt(0)
        /\ consistency_check.d.reasoning = PyStr(Lit("API Key not configured, cannot verify"))

\* C10: a result of improve_content with success false carries the original
\* content as improved_content and an empty list of improvements.
C10_FailureKeepsContent ==
    pc = "improved" =>
        /\ ~improved.raised
        /\ improved.value.d.success = PyBool(FALSE) =>
               /\ improved.value.d.improved_content = PyStr(content)
               /\ improved.value.d.improvements = PyList(<<>>)

\* the provider is configured and answers with prose: success is false and the
\* content, two words long, is handed back
C10_Witness ==
    /\ pc = "improved"
    /\ Truthy(improver.api_key)
    /\ provider.glm = [k |-> "output", texts |-> << <<TokProse>> >>]
    /\ Len(content) = 2
    /\ improved.value.d.success = PyBool(FALSE)
    /\ improved.value.d.improved_content = PyStr(content)

\* the documented table on an age of whole seconds: the score of the first band
\* whose bound in hours the age is below
StepTable(sec) ==
    IF sec < 1 * SECONDS_PER_HOUR THEN 100
    ELSE IF sec < 24 * SECONDS_PER_HOUR THEN 95
    ELSE IF sec < 48 * SECONDS_PER_HOUR THEN 85
    ELSE IF sec < 72 * SECONDS_PER_HOUR THEN 70
    ELSE IF sec < 168 * SECONDS_PER_HOUR THEN 50
    ELSE IF sec < 720 * SECONDS_PER_HOUR THEN 30
    ELSE 10

\* C11 as stated: the time score follows the step table, an age of exactly 24
\* hours scores 95, an age just above 24 hours scores 85, and no timestamp
\* scores 50.
C11_TimeScoreAsStated ==
    pc = "line_283" =>
        IF ~Truthy(timestamp) THEN locals.time.time_score = 50
        ELSE IF timestamp.elapsed = 24 * SECONDS_PER_HOUR THEN locals.time.time_score = 95
        ELSE locals.time.time_score = StepTable(timestamp.elapsed)

\* C11 amended: the time score follows the step table with every band open at
\* its upper bound, so an age of exactly 24 hours scores 85 and an age just
\* below 24 hours scores 95; no timestamp scores 50.
C11_TimeScoreStepTable ==
    pc = "line_283" =>
        IF ~Truthy(timestamp) THEN locals.time.time_score = 50
        ELSE locals.time.time_score = StepTable(timestamp.elapsed)

\* the time score of an age of exactly 24 hours has been computed: 85
C11_Witness ==
    /\ pc = "line_283"
    /\ timestamp = PyDatetime(24 * SECONDS_PER_HOUR)
    /\ locals.time.time_score = 85
    /\ locals.time.time_freshness = Lit("jin 2 tian")

\* the literals of lines 33-44, each one a keyword of its own
ListedKeywords ==
    {<<"zuixin">>, <<"xinbanben">>, <<"ganggang", "fabu">>, <<"jintian", "fabu">>,
     <<"benyue">>, <<"zuijin">>, <<"xintuichu">>, <<"zhengshi", "fabu">>, <<"shangxian">>,
     <<"fabu">>, <<"v2.0">>, <<"v3.0">>, <<"v4.0">>, <<"v5.0">>, <<"v6.0">>,
     <<"2025">>, <<"2026">>, <<"2027">>, <<"2028">>, <<"2029">>, <<"2030">>,
     <<"beta">>, <<"alpha">>, <<"rc">>, <<"release">>, <<"stable">>,
     <<"gengxin">>, <<"shengji">>, <<"xinzeng">>, <<"gaijin">>, <<"youhua">>, <<"xiufu">>,
     <<"breaking", " news">>, <<"breaking">>, <<"tufa">>, <<"zhongbang">>,
     <<"shouci">>, <<"first">>, <<"shouge">>, <<"diyi">>, <<"chuci">>,
     <<"zuixin", "xiaoxi">>, <<"zuixin", "dongtai">>, <<"zuixin", "jinzhan">>,
     <<"zuixin", "qingkuang">>,
     <<"jintian">>, <<"jinri">>, <<"xianzai">>, <<"dangqian">>, <<"zhengzai">>}

ListedCount(text) == Cardinality({k \in ListedKeywords : Occurs(k, Lower(text))})

ScoreOfCount(n) == IF n >= 3 THEN 95 ELSE IF n >= 1 THEN 85 ELSE 50

\* C12: the content score is 95 where three or more of the listed freshness
\* keywords occur in the content, whatever its case, 85 where one or two
\* occur and 50 where none occurs, each listed keyword counting on its own.
C12_ContentScoreByKeywordCount ==
    pc = "line_283" =>
        locals.content_freshness.d.score = PyInt(ScoreOfCount(ListedCount(content)))

\* the grounded freshness rounds that count: those of the two rounds of lines
\* 288-294 whose score is above 0, none where no search key is configured
UsableFreshnessRounds ==
    IF NoSearchKey THEN <<>>
    ELSE GroundedRounds(2, WebSearcher_check_freshness_with_search(topic, content),
                        "score", "web_searcher.check_freshness_with_search").value

\* 0.25 * time + 0.55 * search + 0.20 * content with a search score, the mean
\* of the rounds, and 0.4 * time + 0.6 * content without one
BlendedScore(time, content_freshness, rounds) ==
    IF rounds # <<>>
    THEN DAdd(DAdd(DMul(DFromInt(time.time_score), DLit(25, 100)),
                   DMul(Average(rounds, "score"), DLit(55, 100))),
              DMul(NumOf(content_freshness.d.score), DLit(20, 100)))
    ELSE DAdd(DMul(DFromInt(time.time_score), DLit(4, 10)),
              DMul(NumOf(content_freshness.d.score), DLit(6, 10)))

\* C13: the score check_freshness returns is 0.25 * time + 0.55 * search +
\* 0.20 * content where a grounded round returned a score above 0, and
\* 0.4 * time + 0.6 * content where there is no grounded provider or no round
\* is usable.
C13_FreshnessBlend ==
    pc = "cross_reference" =>
        /\ IsNumber(freshness_check.d.score)
        /\ NumOf(freshness_check.d.score) =
               BlendedScore(time_score(timestamp),
                            _analyze_content_freshness(content, topic),
                            UsableFreshnessRounds)

\* the level of a score under three descending thresholds
LevelUnder(score, newest, fresh, average) ==
    IF DGe(score, DFromInt(newest)) THEN Lit("zuixin")
    ELSE IF DGe(score, DFromInt(fresh)) THEN Lit("jiaoxin")
    ELSE IF DGe(score, DFromInt(average)) THEN Lit("yiban")
    ELSE Lit("guoshi")

\* C14: the freshness level check_freshness returns follows the thresholds 85,
\* 70, 50 on the returned score where a search score took part, and the
\* thresholds 80, 60, 40 where none did, is_fresh being true there exactly for
\* the two highest levels.
C14_FreshnessLevelThresholds ==
    pc = "cross_reference" =>
        IF UsableFreshnessRounds # <<>>
        THEN freshness_check.d.freshness_level =
                 PyStr(LevelUnder(NumOf(freshness_check.d.score), 85, 70, 50))
        ELSE /\ freshness_check.d.freshness_level =
                    PyStr(LevelUnder(NumOf(freshness_check.d.score), 80, 60, 40))
             /\ freshness_check.d.is_fresh =
                    PyBool(freshness_check.d.freshness_level.s
                               \in {Lit("zuixin"), Lit("jiaoxin")})

\* C15: is_fresh of the verdict check_freshness returns is the conjunction of
\* the is_fresh of the search rounds where search rounds took part, and is
\* decided by the returned score alone (at least 60) where none did.
C15_IsFreshByPath ==
    pc = "cross_reference" =>
        freshness_check.d.is_fresh =
            IF UsableFreshnessRounds # <<>>
            THEN PyBool(\A i \in 1..Len(UsableFreshnessRounds) :
                            UsableFreshnessRounds[i].d.is_fresh = PyBool(TRUE))
            ELSE PyBool(DGe(NumOf(freshness_check.d.score), DFromInt(60)))

\* how many of the calls of the running operation went to the named method
CallsTo(name) == Cardinality({i \in 1..Len(calls) : calls[i] = name})

\* C16: with a search key configured verify_claim runs exactly two grounded
\* verification rounds, one after the other and before any other call, and
\* a verdict built from the rounds counts no round of confidence 0 or less.
C16_TwoGroundedRounds ==
    (pc = "check_freshness" /\ ~NoSearchKey) =>
        /\ CallsTo("web_searcher.verify_fact") = 2
        /\ SubSeq(calls, 1, 2) = <<"web_searcher.verify_fact", "web_searcher.verify_fact">>
        /\ "verification_count" \in DOMAIN truth_check.d =>
               truth_check.d.verification_count =
                   PyInt(Len(GroundedRounds(2, WebSearcher_verify_fact(content),
                                            "confidence", "web_searcher.verify_fact").value))

\* a round's answer with the given verdict and confidence
RoundAnswer(is_true, confidence) ==
    WithScore(WithScore(WebSearcher_verify_fact(<<>>), "is_true", PyBool(is_true)),
              "confidence", PyInt(confidence))

IsUsable(round) == DCmp(NumOf(round.d.confidence), DFromInt(0)) > 0

UsableAnswers == SelectSeq(provider.results, IsUsable)

\* the arithmetic mean of the confidences of one or two rounds
MeanConfidence(rounds) ==
    IF Len(rounds) = 1 THEN DDivInt(NumOf(rounds[1].d.confidence), 1)
    ELSE DDivInt(DAdd(NumOf(rounds[1].d.confidence), NumOf(rounds[2].d.confidence)), 2)

BothUsable == Len(UsableAnswers) = 2

OneSaysFalse == \E i \in 1..2 : provider.results[i].d.is_true = PyBool(FALSE)

C19_SingleFallbackCall ==
    (pc = "check_freshness"
        /\ (NoSearchKey
               \/ GroundedRounds(2, WebSearcher_verify_fact(content), "confidence",
                                 "web_searcher.verify_fact").value = <<>>)) =>
        IF Truthy(fact_checker.client)
        THEN CallsTo("chat.completions.create") = 1
        ELSE /\ CallsTo("chat.completions.create") = 0
             /\ truth_check.d.confidence = PyInt(0)
             /\ truth_check.d.is_true = PyNone

\* the suggestion of each dimension, in the order truth, freshness, consistency
ModerateSuggestions ==
    <<PyStr(Lit("truth insufficient: re-verify the facts, add reliable sources")),
      PyStr(Lit("freshness insufficient: update the content, add the latest information")),
      PyStr(Lit("consistency insufficient: check the logic, keep the information consistent"))>>

\* the warning of the truth score and the warning of the freshness score
SevereWarnings ==
    <<PyStr(Lit("warning: content may contain false information, must be fully re-checked")),
      PyStr(Lit("warning: content may be outdated, fetch the latest news again"))>>

Suggestions == outcome.value.d.improvement_suggestions.l

Positions(text) == {i \in 1..Len(Suggestions) : Suggestions[i] = text}

\* the sub-scores of the report, in the order truth, freshness, consistency
SubScores ==
    <<SubScore(truth_check, "confidence"), SubScore(freshness_check, "score"),
      SubScore(consistency_check, "confidence")>>

\* C20: the suggestion of a dimension is in improvement_suggestions, once,
\* exactly when the sub-score of the dimension is below 70; the suggestions
\* stand in the order truth, freshness, consistency; a warning is there
\* exactly when its sub-score is below 50, and every warning stands after
\* every suggestion; truth 40, freshness 80, consistency 90 give the truth
\* suggestion followed by the truth warning and nothing else.
C20_SuggestionsOrdered ==
    (pc = "checked" /\ ~outcome.raised) =>
        /\ \A d \in 1..3 :
               Cardinality(Positions(ModerateSuggestions[d]))
                   = IF DLt(SubScores[d], DFromInt(70)) THEN 1 ELSE 0
        /\ \A d \in 1..2 :
               Cardinality(Positions(SevereWarnings[d]))
                   = IF DLt(SubScores[d], DFromInt(50)) THEN 1 ELSE 0
        /\ \A i \in 1..Len(Suggestions) :
               \/ \E d \in 1..3 : Suggestions[i] = ModerateSuggestions[d]
               \/ \E d \in 1..2 : Suggestions[i] = SevereWarnings[d]
        /\ \A d \in 1..3, e \in 1..3 :
               d < e => \A i \in Positions(ModerateSuggestions[d]),
                           j \in Positions(ModerateSuggestions[e]) : i < j
        /\ \A d \in 1..3, w \in 1..2 :
               \A i \in Positions(ModerateSuggestions[d]),
                  j \in Positions(SevereWarnings[w]) : i < j
        /\ SubScores = <<DFromInt(40), DFromInt(80), DFromInt(90)>> =>
               Suggestions = <<ModerateSuggestions[1], SevereWarnings[1]>>

\* truth 40, freshness 60, consistency 90: the truth suggestion, the freshness
\* suggestion, then the truth warning
C20_Witness ==
    /\ pc = "checked"
    /\ ~outcome.raised
    /\ SubScores = <<DFromInt(40), DFromInt(60), DFromInt(90)>>
    /\ Suggestions = <<ModerateSuggestions[1], ModerateSuggestions[2], SevereWarnings[1]>>

\* the items of improvement_suggestions that are no suggestion of a dimension:
\* the escalated warnings
WarningPositions ==
    {i \in 1..Len(Suggestions) : \A d \in 1..3 : Suggestions[i] # ModerateSuggestions[d]}

\* C21: each of the three sub-scores that is below 50 has appended an
\* escalated warning of its dimension to improvement_suggestions, so the list
\* holds as many warnings as there are sub-scores below 50.
C21_WarningPerDimension ==
    (pc = "checked" /\ ~outcome.raised) =>
        Cardinality(WarningPositions)
            = Cardinality({d \in 1..3 : DLt(SubScores[d], DFromInt(50))})

\* improve_content was given the report that comprehensive_check returned and
\* went past its check of the key
ImprovingTheReport ==
    /\ pc = "improved"
    /\ locals # Unset
    /\ ~outcome.raised
    /\ provider.check_result = outcome.value

\* the need that improve_content itself states for dimension d (lines 199-204)
OwnNeed(d) ==
    IF DLt(SubScores[d], DFromInt(70))
    THEN <<PyStr(Lit(<<"truth score ", "freshness score ", "consistency score ">>[d])
                 \o <<FloatTok(SubScores[d])>> \o Lit(" is too low"))>>
    ELSE <<>>

\* C22 as stated: the list of needs that improve_content numbers into its
\* request is the improvement_suggestions list of the report it was given: the
\* same items in the same order, nothing added.
C22_NeedsAreTheSuggestions ==
    ImprovingTheReport =>
        /\ ~locals.improvement_needs.raised
        /\ locals.improvement_needs.value = Suggestions

\* C22 amended: the list of needs is, for each of truth, freshness and
\* consistency in this order whose sub-score is below 70, the need that
\* improve_content states itself, followed by the improvement_suggestions of
\* the report, every item of it, once, in the order of the report.
C22_NeedsEndWithTheSuggestions ==
    ImprovingTheReport =>
        /\ ~locals.improvement_needs.raised
        /\ locals.improvement_needs.value
               = OwnNeed(1) \o OwnNeed(2) \o OwnNeed(3) \o Suggestions

\* truth 50, freshness 100, consistency 70: one own need, then the one
\* suggestion of the report
C22_Witness ==
    /\ ImprovingTheReport
    /\ SubScores = <<DFromInt(50), DFromInt(100), DFromInt(70)>>
    /\ Suggestions = <<ModerateSuggestions[1]>>
    /\ Len(locals.improvement_needs.value) = 2
    /\ locals.improvement_needs.value[2] = ModerateSuggestions[1]

\* C23: one call of improve_content sends at most one request to the
\* generation provider and makes no other call: it does not run the quality
\* check again and does not send the request again.  With no key configured
\* it sends no request and returns success False with the content it was given.
C23_AtMostOneRequest ==
    pc = "improved" =>
        /\ Len(calls) <= 1
        /\ \A i \in 1..Len(calls) : calls[i] = "requests.post"
        /\ ~improved.raised
        /\ improved.value.d.success = PyBool(TRUE) => calls = <<"requests.post">>
        /\ ~Truthy(improver.api_key) =>
               /\ calls = <<>>
               /\ improved.value.d.success = PyBool(FALSE)
               /\ improved.value.d.improved_content = PyStr(content)

\* a key is configured, the one request is answered and the answer is taken
C23_Witness ==
    /\ pc = "improved"
    /\ Truthy(improver.api_key)
    /\ calls = <<"requests.post">>
    /\ improved.value.d.success = PyBool(TRUE)
    /\ provider.glm.k = "output"

\* json.dumps(v) for the two objects a provider wraps
LiteralOf(v) == IF v = FencedImprovement THEN FencedLiteral(v) ELSE <<TokValue(v)>>

\* the literal wrapped in a fenced code block, with or without the tag json,
\* with or without prose before and after the block
Wrappings(literal) ==
    {pre \o <<TokFence>> \o tag \o nl \o literal \o nl \o <<TokFence>> \o post :
        pre \in {<<>>, <<TokProse, TokNewline>>},
        tag \in {<<>>, <<TokJsonTag>>, <<TokJsonTagUpper>>},
        nl \in {<<>>, <<TokNewline>>},
        post \in {<<>>, <<TokProse>>}}

\* improve_content sent its request and the provider answered with the text
\* wrapped around the literal of the object v
AnsweredWrapped(v) ==
    /\ pc = "improved"
    /\ Truthy(improver.api_key)
    /\ ~locals.improvement_needs.raised
    /\ provider.glm.k = "output"
    /\ Len(provider.glm.texts) = 1
    /\ provider.glm.texts[1] \in Wrappings(LiteralOf(v))

\* C24: when the provider answers with a valid object wrapped in a fenced
\* code block (tagged or not, prose around it or not), improve_content
\* returns success True with the improved_content of the object, also when
\* that improved_content itself contains a fenced code block.
C24_WrapperStripped ==
    \A v \in {ImprovementObject(PyList(<<AnImprovement>>)), FencedImprovement} :
        AnsweredWrapped(v) =>
            /\ ~improved.raised
            /\ improved.value.d.success = PyBool(TRUE)
            /\ improved.value.d.improved_content = v.d.improved_content

C26_ReportNeverMutated ==
    [][/\ (pc = "checked" /\ pc' = "improved") => outcome' = outcome
       /\ (outcome # Unset /\ outcome' # Unset) => outcome' = outcome
       /\ (pc = "improved" /\ pc' = "verify_claim") =>
              earlier' = Append(earlier, outcome.value)
       /\ \A i \in 1..Len(earlier) :
              earlier' = <<>> \/ (Len(earlier') >= i /\ earlier'[i] = earlier[i])]_vars

\* a second check, of the improved content, has returned its report and
\* improve_content has run on it, while the caller holds the first report
C26_Witness ==
    /\ pc = "improved"
    /\ Len(earlier) = 1
    /\ IsQualityReport(earlier[1])
    /\ content = Lit("zuixin fabu 2026")
    /\ ~outcome.raised
    /\ provider.check_result = outcome.value
    /\ locals # Unset

\* the provider calls made so far by the running operation are within the
\* numbers of the code: two verification rounds, two freshness rounds, one
\* search, two generation calls (the fallback of verify_claim and the one of
\* cross_reference) for a check, one request for improve_content
CallBounds ==
    IF pc = "improved"
    THEN Len(calls) <= 1 /\ CallsTo("requests.post") = Len(calls)
    ELSE /\ CallsTo("web_searcher.verify_fact") <= 2
         /\ CallsTo("web_searcher.check_freshness_with_search") <= 2
         /\ CallsTo("tavily.search") <= 1
         /\ CallsTo("chat.completions.create") <= 2
         /\ Len(calls) = CallsTo("web_searcher.verify_fact")
                           + CallsTo("web_searcher.check_freshness_with_search")
                           + CallsTo("tavily.search") + CallsTo("chat.completions.create")

\* C27: every comprehensive_check that was entered returns, every
\* improve_content returns, and the provider calls made on the way stay
\* within their bounds.
C27_ReturnsAfterBoundedCalls ==
    /\ [](CallBounds /\ (pc = "improved" => improved # Unset /\ ~improved.raised))
    /\ (pc \in {"verify_claim", "check_freshness", "cross_reference", "aggregate"})
           ~> (pc = "checked" /\ outcome # Unset)

\* the one request of improve_content raised and improve_content returned
C27_Witness ==
    /\ pc = "improved"
    /\ provider.glm.k = "post_raises"
    /\ calls = <<"requests.post">>
    /\ improved.value.d.success = PyBool(FALSE)
    /\ ~outcome.raised

\* the first of the two rounds that raises
FirstRaising ==
    CHOOSE i \in 1..2 :
        /\ provider.results[i] \notin RoundAnswers
        /\ \A j \in 1..(i - 1) : provider.results[j] \in RoundAnswers

Suggested(x) == \E i \in 1..Len(Suggestions) : Suggestions[i] = x

\* C30: a report with no improvement suggestion passes: its three sub-scores
\* are at least 70 and so is its overall score; and a report that carries the
\* warning of a dimension carries the suggestion of that dimension too.
C30_NoSuggestionMeansPass ==
    (pc = "checked" /\ ~outcome.raised) =>
        /\ Suggestions = <<>> =>
               /\ \A d \in 1..3 : DGe(SubScores[d], DFromInt(70))
               /\ DGe(outcome.value.d.overall_score.num, DFromInt(70))
               /\ outcome.value.d.is_pass = PyBool(TRUE)
        /\ \A d \in 1..2 : Suggested(SevereWarnings[d]) => Suggested(ModerateSuggestions[d])

\* the three sub-scores are exactly 70: no suggestion, and the report passes
C30_Witness ==
    /\ pc = "checked"
    /\ ~outcome.raised
    /\ SubScores = <<DFromInt(70), DFromInt(70), DFromInt(70)>>
    /\ Suggestions = <<>>
    /\ outcome.value.d.is_pass = PyBool(TRUE)

====
